---- MODULE Spec2Model ----
(***************************************************************************)
(* Model of the ARGO retrieval-augmented translation pipeline:             *)
(*   final_enhanced_rag_system.py  (FinalEnhancedRAGSystem and its parts)  *)
(*   working_enhanced_rag.py       (WorkingRAGSystem and its parts)        *)
(*   analyze_parquet_schema.py     (the corpus generator)                  *)
(*                                                                         *)
(* Text is modelled as a sequence of atoms.  A document or a completion is *)
(* a sequence of lexical atoms (a label such as "SQL:", the keyword        *)
(* "SELECT", a whitespace run, the terminator ";", a code fence, any other *)
(* word); a user query is a sequence of characters.  Similarities,         *)
(* distances and thresholds are integers in hundredths (0.45 is 45).       *)
(***************************************************************************)
EXTENDS Integers, Sequences, FiniteSets, TLC

(***************************************************************************)
(* Bounds of the model.                                                    *)
(***************************************************************************)
\* the collection holds at most MaxCorpus templates
MaxCorpus == 2

(***************************************************************************)
(* Generic helpers.                                                        *)
(***************************************************************************)
Min(S) == CHOOSE x \in S : \A y \in S : x <= y

Max2(a, b) == IF a >= b THEN a ELSE b

Min2(a, b) == IF a <= b THEN a ELSE b

Range(s) == {s[i] : i \in 1..Len(s)}

\* s[:n]
Take(s, n) == SubSeq(s, 1, Min2(n, Len(s)))

RECURSIVE Flatten(_)
Flatten(ss) == IF ss = <<>> THEN <<>> ELSE Head(ss) \o Flatten(Tail(ss))

(***************************************************************************)
(* Atoms of documents and completions, and the regular-expression classes  *)
(* the code's patterns use.  re.IGNORECASE makes a pattern match both      *)
(* spellings of a label or keyword.                                        *)
(***************************************************************************)
\* \s : a run of blanks or a line break with its indentation
IsSpace(a) == a \in {" ", "\n"}

\* ; : the statement terminator, the only atom [^;] rejects
IsSemi(a) == a = ";"

\* SQL: under re.IGNORECASE
IsSqlLabel(a) == a \in {"SQL:", "sql:"}

\* SQL Query: under re.IGNORECASE
IsSqlQueryLabel(a) == a \in {"SQL Query:", "sql query:"}

\* SELECT under re.IGNORECASE
IsSelect(a) == a \in {"SELECT", "select"}

\* number of whitespace atoms of d from position k on (what a greedy \s* takes)
RECURSIVE SpacesFrom(_, _)
SpacesFrom(d, k) ==
    IF k <= Len(d) /\ IsSpace(d[k]) THEN 1 + SpacesFrom(d, k + 1) ELSE 0

\* where [^;]+(?:;|$) started at s ends: at the first ';' (included) or at the end
GroupEnd(d, s) ==
    LET semis == {j \in s..Len(d) : IsSemi(d[j])}
    IN  IF semis = {} THEN Len(d) ELSE Min(semis)

\* str.strip()
RECURSIVE LStrip(_)
LStrip(s) == IF s # <<>> /\ IsSpace(Head(s)) THEN LStrip(Tail(s)) ELSE s

RECURSIVE RStrip(_)
RStrip(s) ==
    IF s # <<>> /\ IsSpace(s[Len(s)]) THEN RStrip(SubSeq(s, 1, Len(s) - 1)) ELSE s

Strip(s) == RStrip(LStrip(s))

\* str.rstrip(';')
RECURSIVE RStripSemi(_)
RStripSemi(s) ==
    IF s # <<>> /\ IsSemi(s[Len(s)]) THEN RStripSemi(SubSeq(s, 1, Len(s) - 1)) ELSE s

(***************************************************************************)
(* Query extraction of FinalEnhancedRAGSystem.process_enhanced_query.      *)
(***************************************************************************)
\* the list with its label patterns written without a capture group too
sql_patterns_NoGroups ==
    << [kind |-> "label", group |-> FALSE],
       [kind |-> "label", group |-> FALSE],
       [kind |-> "select", group |-> FALSE],
       [kind |-> "select", group |-> FALSE] >>

\* the four entries of sql_patterns, in order: the kind of text each matches and
\* whether the pattern has a capture group 1
sql_patterns ==
    << [kind |-> "label", group |-> TRUE],     \* r'SQL:\s*([^;]+(?:;|$))'
       [kind |-> "label", group |-> TRUE],     \* r'sql:\s*([^;]+(?:;|$))'
       [kind |-> "select", group |-> FALSE],   \* r'SELECT\s+[^;]+(?:;|$)'
       [kind |-> "select", group |-> FALSE] >> \* r'select\s+[^;]+(?:;|$)'

\* SQL:\s*([^;]+(?:;|$)) matches at i: the label, then at least one atom that is
\* not ';' (\s* may give back what it took; [^;] accepts whitespace)
LabelMatchAt(d, i) ==
    /\ IsSqlLabel(d[i])
    /\ i + 1 <= Len(d)
    /\ ~IsSemi(d[i + 1])

\* SELECT\s+[^;]+(?:;|$) matches at i: the keyword, whitespace, one more atom
\* that is not ';'
SelectMatchAt(d, i) ==
    /\ IsSelect(d[i])
    /\ i + 2 <= Len(d)
    /\ IsSpace(d[i + 1])
    /\ ~IsSemi(d[i + 2])

PatternMatches(p, d) ==
    {i \in 1..Len(d) : IF p.kind = "label" THEN LabelMatchAt(d, i)
                                            ELSE SelectMatchAt(d, i)}

\* group 1 of the label pattern for the leftmost match at i: \s* is greedy and
\* gives one atom back only when nothing but ';' or the end follows it
LabelGroup(d, i) ==
    LET k == i + 1
        w == SpacesFrom(d, k)
        s == IF k + w <= Len(d) /\ ~IsSemi(d[k + w]) THEN k + w ELSE k + w - 1
    IN  SubSeq(d, s, GroupEnd(d, s))

\* the loop over sql_patterns: re.search, then match.group(1).strip().rstrip(';')
\* and break.  group(1) of a pattern without a group raises IndexError.
RECURSIVE ExtractFrom(_, _)
ExtractFrom(n, d) ==
    IF n > Len(sql_patterns) THEN [raised |-> FALSE, sql |-> <<>>]
    ELSE LET m == PatternMatches(sql_patterns[n], d)
         IN  IF m = {} THEN ExtractFrom(n + 1, d)
             ELSE IF sql_patterns[n].group
                  THEN [raised |-> FALSE,
                        sql |-> RStripSemi(Strip(LabelGroup(d, Min(m))))]
                  ELSE [raised |-> TRUE, sql |-> <<>>]

ExtractRagSql(d) == ExtractFrom(1, d)

(***************************************************************************)
(* Query extraction of WorkingRAGSystem.process_query.                     *)
(***************************************************************************)
\* (SELECT[^;]+(?:;|$)) matches at j
WorkingSelectAt(d, j) ==
    /\ j + 1 <= Len(d)
    /\ IsSelect(d[j])
    /\ ~IsSemi(d[j + 1])

\* where the group of working pattern n starts, for a match at i (0: no match)
WorkingGroupStart(n, d, i) ==
    IF n = 3 THEN (IF WorkingSelectAt(d, i) THEN i ELSE 0)
    ELSE LET j == i + 1 + SpacesFrom(d, i + 1)
         IN  IF /\ (IF n = 1 THEN IsSqlQueryLabel(d[i]) ELSE IsSqlLabel(d[i]))
                /\ WorkingSelectAt(d, j)
             THEN j ELSE 0

RECURSIVE WorkingExtractFrom(_, _)
WorkingExtractFrom(n, d) ==
    IF n > 3 THEN <<>>
    ELSE LET m == {i \in 1..Len(d) : WorkingGroupStart(n, d, i) > 0}
         IN  IF m = {} THEN WorkingExtractFrom(n + 1, d)
             ELSE LET s == WorkingGroupStart(n, d, Min(m))
                  IN  RStripSemi(Strip(SubSeq(d, s, GroupEnd(d, s + 1))))

WorkingExtractRagSql(d) == WorkingExtractFrom(1, d)

(***************************************************************************)
(* AdvancedQueryPreprocessor.  A query text is a sequence of characters;   *)
(* the sample texts are lower-case already, so str.lower() changes nothing *)
(* on them.                                                                *)
(***************************************************************************)
SP == <<" ">>

\* \w of the re module, on the characters the sample texts use
IsWordChar(c) ==
    c \in {"a", "b", "c", "d", "e", "f", "g", "h", "i", "j", "k", "l", "m",
           "n", "o", "p", "q", "r", "s", "t", "u", "v", "w", "x", "y", "z",
           "_", "0", "1", "2", "3", "4", "5", "6", "7", "8", "9"}

\* kw in text, of Python: kw occurs in text as a substring
Occurs(kw, text) ==
    \E i \in 1..(Len(text) - Len(kw) + 1) : SubSeq(text, i, i + Len(kw) - 1) = kw

\* \b<phrase>\b matches at i (every stop phrase starts and ends with a word
\* character, so \b asks for a non-word character or the edge on the other side)
StopWordAt(text, ph, i) ==
    /\ i + Len(ph) - 1 <= Len(text)
    /\ SubSeq(text, i, i + Len(ph) - 1) = ph
    /\ (i = 1 \/ ~IsWordChar(text[i - 1]))
    /\ (i + Len(ph) > Len(text) \/ ~IsWordChar(text[i + Len(ph)]))

\* re.sub(rf'\b{stop_word}\b', '', processed) scanning from position i
RECURSIVE RemoveStopWord(_, _, _)
RemoveStopWord(text, ph, i) ==
    IF i > Len(text) THEN <<>>
    ELSE IF StopWordAt(text, ph, i) THEN RemoveStopWord(text, ph, i + Len(ph))
    ELSE <<text[i]>> \o RemoveStopWord(text, ph, i + 1)

stop_words ==
    << <<"g", "i", "v", "e", " ", "m", "e">>,
       <<"s", "h", "o", "w", " ", "m", "e">>,
       <<"i", " ", "w", "a", "n", "t">>,
       <<"p", "l", "e", "a", "s", "e">>,
       <<"c", "a", "n", " ", "y", "o", "u">> >>
\* the loop over stop_words, from its n-th entry on
RECURSIVE RemoveStopWords(_, _)
RemoveStopWords(text, n) ==
    IF n > Len(stop_words) THEN text
    ELSE RemoveStopWords(RemoveStopWord(text, stop_words[n], 1), n + 1)

\* str.split(): the maximal runs of non-blank characters
RECURSIVE Split(_)
Split(text) ==
    IF text = <<>> THEN <<>>
    ELSE IF Head(text) = " " THEN Split(Tail(text))
    ELSE LET blanks == {i \in 1..Len(text) : text[i] = " "}
             e == IF blanks = {} THEN Len(text) ELSE Min(blanks) - 1
         IN  <<SubSeq(text, 1, e)>> \o Split(SubSeq(text, e + 1, Len(text)))

\* ' '.join(words)
RECURSIVE Join(_)
Join(words) ==
    IF words = <<>> THEN <<>>
    ELSE IF Len(words) = 1 THEN words[1]
    ELSE words[1] \o SP \o Join(Tail(words))

\* re.sub(r'\s+', ' ', processed).strip()
NormalizeWhitespace(text) == Join(Split(text))

oceanographic_synonyms ==
    { <<<<"t", "e", "m", "p">>, <<"t", "e", "m", "p", "e", "r", "a", "t", "u", "r", "e">>>>,
      <<<<"t", "e", "m", "p", "e", "r", "a", "t", "u", "r", "e">>, <<"t", "e", "m", "p", "e", "r", "a", "t", "u", "r", "e">>>>,
      <<<<"t", "h", "e", "r", "m", "a", "l">>, <<"t", "e", "m", "p", "e", "r", "a", "t", "u", "r", "e">>>>,
      <<<<"t">>, <<"t", "e", "m", "p", "e", "r", "a", "t", "u", "r", "e">>>>,
      <<<<"s", "a", "l">>, <<"s", "a", "l", "i", "n", "i", "t", "y">>>>,
      <<<<"s", "a", "l", "i", "n", "i", "t", "y">>, <<"s", "a", "l", "i", "n", "i", "t", "y">>>>,
      <<<<"s", "a", "l", "t">>, <<"s", "a", "l", "i", "n", "i", "t", "y">>>>,
      <<<<"s">>, <<"s", "a", "l", "i", "n", "i", "t", "y">>>>,
      <<<<"p", "r", "e", "s">>, <<"p", "r", "e", "s", "s", "u", "r", "e">>>>,
      <<<<"p", "r", "e", "s", "s", "u", "r", "e">>, <<"p", "r", "e", "s", "s", "u", "r", "e">>>>,
      <<<<"d", "e", "p", "t", "h">>, <<"p", "r", "e", "s", "s", "u", "r", "e">>>>,
      <<<<"p">>, <<"p", "r", "e", "s", "s", "u", "r", "e">>>>,
      <<<<"f", "l", "o", "a", "t">>, <<"f", "l", "o", "a", "t", "s">>>>,
      <<<<"f", "l", "o", "a", "t", "s">>, <<"f", "l", "o", "a", "t", "s">>>>,
      <<<<"b", "u", "o", "y">>, <<"f", "l", "o", "a", "t", "s">>>>,
      <<<<"a", "r", "g", "o">>, <<"f", "l", "o", "a", "t", "s">>>>,
      <<<<"p", "r", "o", "f", "i", "l", "e">>, <<"p", "r", "o", "f", "i", "l", "e", "s">>>>,
      <<<<"p", "r", "o", "f", "i", "l", "e", "s">>, <<"p", "r", "o", "f", "i", "l", "e", "s">>>>,
      <<<<"c", "a", "s", "t">>, <<"p", "r", "o", "f", "i", "l", "e", "s">>>>,
      <<<<"m", "e", "a", "s", "u", "r", "e", "m", "e", "n", "t">>, <<"m", "e", "a", "s", "u", "r", "e", "m", "e", "n", "t", "s">>>>,
      <<<<"m", "e", "a", "s", "u", "r", "e", "m", "e", "n", "t", "s">>, <<"m", "e", "a", "s", "u", "r", "e", "m", "e", "n", "t", "s">>>>,
      <<<<"d", "a", "t", "a">>, <<"m", "e", "a", "s", "u", "r", "e", "m", "e", "n", "t", "s">>>>,
      <<<<"v", "a", "l", "u", "e", "s">>, <<"m", "e", "a", "s", "u", "r", "e", "m", "e", "n", "t", "s">>>>,
      <<<<"r", "e", "a", "d", "i", "n", "g", "s">>, <<"m", "e", "a", "s", "u", "r", "e", "m", "e", "n", "t", "s">>>>,
      <<<<"g", "e", "t">>, <<"r", "e", "t", "r", "i", "e", "v", "e">>>>,
      <<<<"s", "h", "o", "w">>, <<"d", "i", "s", "p", "l", "a", "y">>>>,
      <<<<"l", "i", "s", "t">>, <<"d", "i", "s", "p", "l", "a", "y">>>>,
      <<<<"f", "i", "n", "d">>, <<"r", "e", "t", "r", "i", "e", "v", "e">>>>,
      <<<<"g", "i", "v", "e">>, <<"r", "e", "t", "r", "i", "e", "v", "e">>>>,
      <<<<"c", "o", "u", "n", "t">>, <<"t", "o", "t", "a", "l">>>>,
      <<<<"n", "u", "m", "b", "e", "r">>, <<"t", "o", "t", "a", "l">>>>,
      <<<<"h", "o", "w", " ", "m", "a", "n", "y">>, <<"t", "o", "t", "a", "l">>>>,
      <<<<"g", "o", "o", "d">>, <<"q", "u", "a", "l", "i", "t", "y">>>>,
      <<<<"r", "e", "l", "i", "a", "b", "l", "e">>, <<"q", "u", "a", "l", "i", "t", "y">>>>,
      <<<<"v", "a", "l", "i", "d">>, <<"q", "u", "a", "l", "i", "t", "y">>>>,
      <<<<"a", "c", "t", "i", "v", "e">>, <<"o", "p", "e", "r", "a", "t", "i", "o", "n", "a", "l">>>>,
      <<<<"w", "o", "r", "k", "i", "n", "g">>, <<"o", "p", "e", "r", "a", "t", "i", "o", "n", "a", "l">>>>,
      <<<<"l", "i", "v", "e">>, <<"o", "p", "e", "r", "a", "t", "i", "o", "n", "a", "l">>>> }
\* a lookup that drops the words the dictionary does not hold
Synonym_DropsUnknown(word) ==
    IF \E p \in oceanographic_synonyms : p[1] = word
    THEN (CHOOSE p \in oceanographic_synonyms : p[1] = word)[2]
    ELSE <<>>

\* self.oceanographic_synonyms.get(word, word)
Synonym(word) ==
    IF \E p \in oceanographic_synonyms : p[1] = word
    THEN (CHOOSE p \in oceanographic_synonyms : p[1] = word)[2]
    ELSE word

ExpandTerms(words) == [i \in 1..Len(words) |-> Synonym(words[i])]

\* schema_info as parquet_schema_analysis.json gives it (a sample of the tables'
\* columns), and {} when the file cannot be read
ArgoSchema ==
    << [table |-> <<"f", "l", "o", "a", "t", "s">>,
        columns |-> << <<"f", "l", "o", "a", "t", "_", "i", "d">>,
                     <<"c", "u", "r", "r", "e", "n", "t", "_", "s", "t", "a", "t", "u", "s">> >>],
       [table |-> <<"p", "r", "o", "f", "i", "l", "e", "s">>,
        columns |-> << <<"p", "r", "o", "f", "i", "l", "e", "_", "i", "d">>,
                     <<"p", "r", "o", "f", "i", "l", "e", "_", "d", "a", "t", "e">> >>],
       [table |-> <<"m", "e", "a", "s", "u", "r", "e", "m", "e", "n", "t", "s">>,
        columns |-> << <<"p", "r", "e", "s", "s", "u", "r", "e">>,
                     <<"t", "e", "m", "p", "e", "r", "a", "t", "u", "r", "e">>,
                     <<"s", "a", "l", "i", "n", "i", "t", "y">>,
                     <<"t", "e", "m", "p", "e", "r", "a", "t", "u", "r", "e", "_", "q", "c">> >>] >>
\* how AdvancedQueryPreprocessor.__init__ found the schema file, and the
\* schema_info it keeps
SchemaFiles == {"missing", "read"}

SchemaInfo(schema_file) == IF schema_file = "read" THEN ArgoSchema ELSE <<>>

table_keywords ==
    << [name |-> <<"f", "l", "o", "a", "t", "s">>,
        keywords |-> {<<"f", "l", "o", "a", "t">>, <<"b", "u", "o", "y">>, <<"a", "r", "g", "o">>}],
       [name |-> <<"p", "r", "o", "f", "i", "l", "e", "s">>,
        keywords |-> {<<"p", "r", "o", "f", "i", "l", "e">>, <<"c", "a", "s", "t">>}],
       [name |-> <<"m", "e", "a", "s", "u", "r", "e", "m", "e", "n", "t", "s">>,
        keywords |-> {<<"m", "e", "a", "s", "u", "r", "e", "m", "e", "n", "t">>, <<"d", "a", "t", "a">>, <<"t", "e", "m", "p", "e", "r", "a", "t", "u", "r", "e">>, <<"s", "a", "l", "i", "n", "i", "t", "y">>, <<"p", "r", "e", "s", "s", "u", "r", "e">>}] >>
operation_keywords ==
    << [name |-> "count",
        keywords |-> {<<"c", "o", "u", "n", "t">>, <<"t", "o", "t", "a", "l">>, <<"h", "o", "w", " ", "m", "a", "n", "y">>, <<"n", "u", "m", "b", "e", "r">>}],
       [name |-> "retrieve",
        keywords |-> {<<"g", "e", "t">>, <<"s", "h", "o", "w">>, <<"l", "i", "s", "t">>, <<"d", "i", "s", "p", "l", "a", "y">>, <<"r", "e", "t", "r", "i", "e", "v", "e">>}],
       [name |-> "filter",
        keywords |-> {<<"w", "h", "e", "r", "e">>, <<"f", "i", "l", "t", "e", "r">>, <<"s", "p", "e", "c", "i", "f", "i", "c">>}],
       [name |-> "aggregate",
        keywords |-> {<<"a", "v", "e", "r", "a", "g", "e">>, <<"m", "e", "a", "n">>, <<"m", "i", "n">>, <<"m", "a", "x">>, <<"s", "u", "m">>}] >>
\* the entries of a keyword table with any(kw in query for kw in keywords)
RECURSIVE MatchingNames(_, _)
MatchingNames(table, query) ==
    IF table = <<>> THEN <<>>
    ELSE (IF \E kw \in Head(table).keywords : Occurs(kw, query)
          THEN <<Head(table).name>> ELSE <<>>) \o MatchingNames(Tail(table), query)

\* col_name.replace('_', ' ')
Unscore(name) == [i \in 1..Len(name) |-> IF name[i] = "_" THEN " " ELSE name[i]]

RECURSIVE MatchingColumns(_, _)
MatchingColumns(cols, query) ==
    IF cols = <<>> THEN <<>>
    ELSE (IF Occurs(Head(cols), query) \/ Occurs(Unscore(Head(cols)), query)
          THEN <<Head(cols)>> ELSE <<>>) \o MatchingColumns(Tail(cols), query)

_extract_entities(schema, query) ==
    [tables |-> MatchingNames(table_keywords, query),
     columns |-> MatchingColumns(
                    Flatten([i \in 1..Len(schema) |-> schema[i].columns]), query),
     operations |-> MatchingNames(operation_keywords, query)]

intent_patterns ==
    << [intent |-> "count_statistics",
        patterns |-> {<<"c", "o", "u", "n", "t">>, <<"t", "o", "t", "a", "l">>, <<"h", "o", "w", " ", "m", "a", "n", "y">>, <<"n", "u", "m", "b", "e", "r", " ", "o", "f">>}],
       [intent |-> "data_retrieval",
        patterns |-> {<<"g", "e", "t">>, <<"s", "h", "o", "w">>, <<"l", "i", "s", "t">>, <<"d", "i", "s", "p", "l", "a", "y">>, <<"r", "e", "t", "r", "i", "e", "v", "e">>, <<"g", "i", "v", "e", " ", "m", "e">>}],
       [intent |-> "data_filtering",
        patterns |-> {<<"w", "h", "e", "r", "e">>, <<"f", "i", "l", "t", "e", "r">>, <<"s", "p", "e", "c", "i", "f", "i", "c">>, <<"i", "n", " ", "r", "e", "g", "i", "o", "n">>, <<"w", "i", "t", "h">>}],
       [intent |-> "aggregation",
        patterns |-> {<<"a", "v", "e", "r", "a", "g", "e">>, <<"m", "e", "a", "n">>, <<"m", "i", "n">>, <<"m", "a", "x">>, <<"s", "t", "a", "t", "i", "s", "t", "i", "c", "s">>}],
       [intent |-> "quality_control",
        patterns |-> {<<"q", "u", "a", "l", "i", "t", "y">>, <<"g", "o", "o", "d">>, <<"b", "a", "d">>, <<"q", "c">>, <<"r", "e", "l", "i", "a", "b", "l", "e">>}],
       [intent |-> "geographic",
        patterns |-> {<<"l", "o", "c", "a", "t", "i", "o", "n">>, <<"r", "e", "g", "i", "o", "n">>, <<"l", "a", "t", "i", "t", "u", "d", "e">>, <<"l", "o", "n", "g", "i", "t", "u", "d", "e">>, <<"c", "o", "o", "r", "d", "i", "n", "a", "t", "e", "s">>}],
       [intent |-> "temporal",
        patterns |-> {<<"r", "e", "c", "e", "n", "t">>, <<"l", "a", "t", "e", "s", "t">>, <<"d", "a", "t", "e">>, <<"t", "i", "m", "e">>, <<"y", "e", "a", "r">>, <<"m", "o", "n", "t", "h">>}] >>
\* a loop that goes on after a match: the last matching rule wins
RECURSIVE ClassifyFrom_LastMatch(_, _)
ClassifyFrom_LastMatch(n, query) ==
    IF n > Len(intent_patterns) THEN "general_query"
    ELSE LET later == ClassifyFrom_LastMatch(n + 1, query)
         IN  IF later # "general_query" THEN later
             ELSE IF \E p \in intent_patterns[n].patterns : Occurs(p, query)
                  THEN intent_patterns[n].intent
                  ELSE "general_query"

\* the first rule, from the n-th on, one of whose patterns occurs in the query
RECURSIVE ClassifyFrom(_, _)
ClassifyFrom(n, query) ==
    IF n > Len(intent_patterns) THEN "general_query"
    ELSE IF \E p \in intent_patterns[n].patterns : Occurs(p, query)
         THEN intent_patterns[n].intent
         ELSE ClassifyFrom(n + 1, query)

_classify_intent(query) == ClassifyFrom(1, query)

TableVariations(tables, query) ==
    Flatten([i \in 1..Len(tables) |->
        << tables[i] \o SP \o query,
           <<"d", "a", "t", "a", "b", "a", "s", "e", " ">> \o tables[i] \o SP \o query,
           <<"a", "r", "g", "o", " ">> \o tables[i] \o SP \o query >>])

ColumnVariations(columns, query) ==
    Flatten([i \in 1..Len(columns) |->
        << columns[i] \o SP \o query,
           <<"g", "e", "t", " ">> \o columns[i] \o <<" ", "f", "r", "o", "m", " ", "d", "a", "t", "a", "b", "a", "s", "e">> >>])

OperationVariations(operations, query) ==
    Flatten([i \in 1..Len(operations) |->
        IF operations[i] = "count"
        THEN << <<"s", "t", "a", "t", "i", "s", "t", "i", "c", "a", "l", " ">> \o query, <<"c", "o", "u", "n", "t", " ", "r", "e", "c", "o", "r", "d", "s", " ">> \o query >>
        ELSE IF operations[i] = "retrieve"
        THEN << <<"e", "x", "t", "r", "a", "c", "t", " ", "d", "a", "t", "a", " ">> \o query, <<"a", "c", "c", "e", "s", "s", " ">> \o query >>
        ELSE <<>>])

\* the variations without the cut at 10
_generate_semantic_variations_Uncut(query, entities) ==
    <<query>> \o TableVariations(entities.tables, query)
              \o ColumnVariations(Take(entities.columns, 3), query)
              \o OperationVariations(entities.operations, query)

_generate_semantic_variations(query, entities) ==
    Take(<<query>> \o TableVariations(entities.tables, query)
                   \o ColumnVariations(Take(entities.columns, 3), query)
                   \o OperationVariations(entities.operations, query), 10)

preprocess_query(schema, query) ==
    LET original == Strip(query)
        processed == NormalizeWhitespace(RemoveStopWords(original, 1))
        entities == _extract_entities(schema, processed)
    IN  [original |-> original,
         processed |-> processed,
         expanded |-> Join(ExpandTerms(Split(processed))),
         intent |-> _classify_intent(processed),
         entities |-> entities,
         variations |-> _generate_semantic_variations(processed, entities),
         tokens |-> Split(processed)]

\* the user queries the model submits
Query1 == <<"c", "o", "u", "n", "t", " ", "f", "l", "o", "a", "t", "s">>
Query2 == <<"t", "h", "e", "r", "m", "a", "l", " ", "s", "t", "r", "a", "t", "i", "f", "i", "c", "a", "t", "i", "o", "n", " ", "a", "n", "a", "l", "y", "s", "i", "s">>
Query3 == <<"a", "v", "e", "r", "a", "g", "e", " ", "t", "e", "m", "p", "e", "r", "a", "t", "u", "r", "e">>
Query4 == <<"p", "l", "e", "a", "s", "e", " ", "l", "i", "s", "t", " ", "p", "r", "o", "f", "i", "l", "e", "s">>
\* a request is named by its text; QueryText gives the characters
QueryText ==
    ("count floats" :> Query1)
    @@ ("thermal stratification analysis" :> Query2)
    @@ ("average temperature" :> Query3)
    @@ ("please list profiles" :> Query4)

Queries == DOMAIN QueryText

\* preprocess_query is a function of the schema and the text alone
Preprocessed ==
    [f \in SchemaFiles |->
        [q \in Queries |-> preprocess_query(SchemaInfo(f), QueryText[q])]]

(***************************************************************************)
(* IntelligentThresholdManager.  A Python dict is a function from its keys *)
(* (strings); "k in d" is k \in DOMAIN d and {} is the empty function.     *)
(***************************************************************************)
\* base thresholds with the high and the low value exchanged
base_thresholds_Unordered ==
    [high_similarity |-> 10, medium_similarity |-> 25, low_similarity |-> 45]

\* self.base_thresholds
base_thresholds ==
    [high_similarity |-> 45, medium_similarity |-> 25, low_similarity |-> 10]

adjustments ==
    [query_type |-> [column_query |-> 10, table_query |-> 5, count_query |-> 8,
                     join_query |-> -5, measurement_query |-> 3],
     complexity |-> [simple |-> 5, medium |-> 0, complex |-> -5],
     intent |-> [count_statistics |-> 8, data_retrieval |-> 6,
                 data_filtering |-> -2, aggregation |-> -3, quality_control |-> 2]]

\* the floor max(0.05, ...) of calculate_thresholds
ThresholdFloor == 5

\* the boost of a schema-based best match
SchemaMatchBoost == 5

\* dict.get(key, 0.0)
GetOrZero(table, key) == IF key \in DOMAIN table THEN table[key] ELSE 0

\* total_adjustment with the intent lookup left out
total_adjustment_NoIntent(query_metadata, rag_metadata) ==
      (IF "type" \in DOMAIN query_metadata
       THEN GetOrZero(adjustments.query_type, query_metadata["type"]) ELSE 0)
    + (IF "complexity" \in DOMAIN query_metadata
       THEN GetOrZero(adjustments.complexity, query_metadata["complexity"]) ELSE 0)
    + (IF /\ DOMAIN rag_metadata # {}
          /\ "type" \in DOMAIN rag_metadata
          /\ rag_metadata["type"] \in {"column_query", "table_query"}
       THEN SchemaMatchBoost ELSE 0)

\* total_adjustment of calculate_thresholds
total_adjustment(query_metadata, rag_metadata) ==
      (IF "type" \in DOMAIN query_metadata
       THEN GetOrZero(adjustments.query_type, query_metadata["type"]) ELSE 0)
    + (IF "complexity" \in DOMAIN query_metadata
       THEN GetOrZero(adjustments.complexity, query_metadata["complexity"]) ELSE 0)
    + (IF "intent" \in DOMAIN query_metadata
       THEN GetOrZero(adjustments.intent, query_metadata["intent"]) ELSE 0)
    + (IF /\ DOMAIN rag_metadata # {}
          /\ "type" \in DOMAIN rag_metadata
          /\ rag_metadata["type"] \in {"column_query", "table_query"}
       THEN SchemaMatchBoost ELSE 0)

\* calculate_thresholds without the floor
calculate_thresholds_NoFloor(query_metadata, rag_metadata) ==
    [k \in DOMAIN base_thresholds |->
        base_thresholds[k] + total_adjustment(query_metadata, rag_metadata)]

calculate_thresholds(query_metadata, rag_metadata) ==
    [k \in DOMAIN base_thresholds |->
        Max2(ThresholdFloor,
             base_thresholds[k] + total_adjustment(query_metadata, rag_metadata))]

\* the static cut-offs of WorkingRAGSystem.process_query
WorkingHigh == 45

WorkingMedium == 25

(***************************************************************************)
(* The template corpus.  create_optimized_chromadb_data builds each        *)
(* content as labelled lines; a line break stands for the break and the    *)
(* indentation that follows it.                                            *)
(***************************************************************************)
\* the words of a phrase, separated by blanks
RECURSIVE Phrase(_)
Phrase(words) ==
    IF Len(words) <= 1 THEN words
    ELSE <<words[1], " ">> \o Phrase(Tail(words))

\* f"{label} {value}" followed by the break to the next line
Line(label, value) == <<label, " ">> \o value \o <<"\n">>

\* 3. COUNT/STATISTICS QUERIES: the template of one variation for one table
CountTemplate(table_name, variation, row_count) ==
    [content |-> Strip(
        <<"\n">>
        \o Line("Count Query:", variation)
        \o Line("Intent:", Phrase(<<"count", "total", table_name, "records">>))
        \o Line("Table:", <<table_name>>)
        \o Line("SQL:", Phrase(<<"SELECT", "COUNT(*)", "FROM", table_name>>))
        \o Line("Context:", Phrase(<<"Statistical", "count", "of", "records",
                                     "in", table_name, "table">>))
        \o Line("Usage:", Phrase(<<"Get", "total", "record", "count", "for",
                                   table_name>>))
        \o Line("Total Records:", <<row_count>>)),
     metadata |-> [type |-> "count_query", table |-> table_name,
                   category |-> "statistics", complexity |-> "simple",
                   intent |-> Phrase(<<"count", "total", table_name, "records">>)]]

\* 1. DIRECT COLUMN QUERIES: the "get <column>" template of one column
ColumnTemplate(table_name, col_name, dtype) ==
    [content |-> Strip(
        <<"\n">>
        \o Line("Column Query:", Phrase(<<"get", col_name>>))
        \o Line("Intent:", Phrase(<<"retrieve", col_name, "values", "from",
                                    table_name>>))
        \o Line("Context:", Phrase(<<"Direct", "access", "to", col_name, "column",
                                     "in", table_name, "table">>))
        \o Line("Table:", <<table_name>>)
        \o Line("Column:", <<col_name>>)
        \o Line("Data Type:", <<dtype>>)
        \o Line("SQL:", Phrase(<<"SELECT", col_name, "FROM", table_name>>))
        \o Line("Usage:", Phrase(<<"Direct", "column", "access", "for", "data",
                                   "extraction">>))),
     metadata |-> [type |-> "column_query", table |-> table_name,
                   column |-> col_name, category |-> "direct_access",
                   complexity |-> "simple", data_type |-> dtype]]

\* The templates a collection of the model may hold: two the generator builds,
\* and two entries of a corpus file written by hand, one holding a bare
\* statement and one holding no statement.
Templates ==
    [count_floats |->
        CountTemplate("floats", Phrase(<<"count", "floats">>), "4000"),
     col_float_id |-> ColumnTemplate("floats", "float_id", "int64"),
     bare_select |->
        [content |-> Phrase(<<"SELECT", "*", "FROM", "floats">>),
         metadata |-> [category |-> "manual"]],
     no_statement |->
        [content |-> Phrase(<<"ARGO", "floats", "drift", "with", "currents">>),
         metadata |-> <<>>]]

\* the order in which the corpus file lists them
TemplateOrder == <<"count_floats", "col_float_id", "bare_select", "no_statement">>

\* the collections the model serves from: the corpus file's templates, in
\* its order, at most MaxCorpus of them
Collections ==
    {c \in UNION {[1..n -> Range(TemplateOrder)] : n \in 0..MaxCorpus} :
        \A i, j \in 1..Len(c) :
            i < j => \E a, b \in 1..Len(TemplateOrder) :
                        a < b /\ TemplateOrder[a] = c[i] /\ TemplateOrder[b] = c[j]}

\* the statement the count template of table floats embeds
CountFloatsSql == Phrase(<<"SELECT", "COUNT(*)", "FROM", "floats">>)

(***************************************************************************)
(* The Generation Adapter: generate_sql_with_llm / generate_sql.           *)
(***************************************************************************)
\* a code fence: three backquotes, written [fence] here
IsFence(a) == a = "[fence]"

\* sql under re.IGNORECASE, written right after the opening fence
IsSqlTag(a) == a \in {"sql", "SQL"}

\* re.sub of the opening fence and its sql tag, with the whitespace after them
\* (the first re.sub of the cleaning, anchored at the start, re.IGNORECASE)
StripOpeningFence(s) ==
    IF Len(s) >= 2 /\ IsFence(s[1]) /\ IsSqlTag(s[2])
    THEN SubSeq(s, 3 + SpacesFrom(s, 3), Len(s))
    ELSE s

\* the second re.sub of the cleaning: a fence with nothing but whitespace
\* between it and the end, removed with the whitespace before it
StripClosingFence(s) ==
    LET t == RStrip(s)
    IN  IF t # <<>> /\ IsFence(t[Len(t)])
        THEN RStrip(SubSeq(t, 1, Len(t) - 1))
        ELSE s

\* the cleaning of response.choices[0].message.content
CleanSql(content) == Strip(StripClosingFence(StripOpeningFence(Strip(content))))

\* a statement the completion service writes
GenStmt == Phrase(<<"SELECT", "temperature", "FROM", "measurements">>)

\* fence and tag, the body, and the closing fence, on lines of their own
Fenced(tag, body) == <<"[fence]">> \o tag \o <<"\n">> \o body \o <<"\n", "[fence]">>

\* the contents a completion may have
Completions ==
    { <<>>,
      GenStmt,
      GenStmt \o <<";">>,
      Fenced(<<"sql">>, GenStmt \o <<";">>),
      Fenced(<<"sql">>, GenStmt),
      Fenced(<<>>, GenStmt \o <<";">>) }

\* what the completion call does: it raises, or returns a content
LLMOutcomes ==
    {[raised |-> TRUE, content |-> <<>>]}
    \cup {[raised |-> FALSE, content |-> c] : c \in Completions}

\* the adapter without its except clause: the exception of the completion
\* call goes on to the router
generate_sql_with_llm_Propagates(outcome) ==
    [raised |-> outcome.raised,
     sql |-> IF outcome.raised THEN <<>> ELSE CleanSql(outcome.content)]

\* generate_sql_with_llm and generate_sql, from the completion call on: the
\* cleaned content, and "" from the except clause when anything raised
generate_sql_with_llm(outcome) ==
    [raised |-> FALSE,
     sql |-> IF outcome.raised THEN <<>> ELSE CleanSql(outcome.content)]

(***************************************************************************)
(* The vector backend (the collection's query) and semantic_search.        *)
(***************************************************************************)
\* process_enhanced_query asks for top_k = 8 results
TopKFinal == 8

\* process_query asks for top_k = 5 results
TopKWorking == 5

\* semantic_search searches query_variations[:5]
MaxSearched == 5

\* generate_sql_with_llm and generate_sql put rag_context[:3] in the prompt
ContextSize == 3

\* cosine distances of the backend, in hundredths: the similarities 0.52 and
\* 0.08 of the scenarios, and the static cut-offs 0.45 and 0.25
Distances == {48, 55, 75, 92}

\* dict.__contains__ on a dict that may be {}
HasKey(d, k) == DOMAIN d # {} /\ k \in DOMAIN d

\* f"doc_{i}" for the rank i (counted from 0) of a hit
DocKeys == <<"doc_0", "doc_1", "doc_2", "doc_3", "doc_4", "doc_5", "doc_6", "doc_7">>

\* metadata.get('id', f"doc_{i}")
DocId(metadata, i) == IF HasKey(metadata, "id") THEN metadata["id"] ELSE DocKeys[i + 1]

\* What one query of the collection c for n_results neighbours may return: its
\* nearest templates, each once, by non-decreasing distance.  The distances
\* come from the embeddings, which the model leaves open.
ResponsesWithin(c, n_results, distances) ==
    LET m == Min2(Len(c), n_results)
        orders == {o \in [1..m -> Range(c)] :
                      \A i, j \in 1..m : i # j => o[i] # o[j]}
        dists == {d \in [1..m -> distances] :
                     \A i \in 1..(m - 1) : d[i] <= d[i + 1]}
    IN  {[i \in 1..m |-> [tpl |-> o[i], distance |-> d[i]]] :
            o \in orders, d \in dists}

\* the responses within the distances of the scenarios
QueryResponses(c, n_results) == ResponsesWithin(c, n_results, Distances)

\* the responses to a query for top_k = 8 and top_k = 5 neighbours, by collection
FinalResponses == [c \in Collections |-> QueryResponses(c, TopKFinal)]

WorkingResponses == [c \in Collections |-> QueryResponses(c, TopKWorking)]

\* similarity = 1.0 - distance of OptimizedChromaManager.semantic_search
FinalSimilarity(distance) == 100 - distance

\* similarity = max(0.0, 1.0 - distance) of WorkingChromaManager.semantic_search
WorkingSimilarity(distance) == Max2(0, 100 - distance)

\* all_results[doc_id] = {...} when doc_id is new or the similarity is higher;
\* all_results is a dict: a new key goes last, a known key keeps its place
MergeHit(all, key, value) ==
    LET at == {i \in 1..Len(all) : all[i].key = key}
    IN  IF at = {} THEN Append(all, [key |-> key, value |-> value])
        ELSE IF value.similarity > all[Min(at)].value.similarity
             THEN [all EXCEPT ![Min(at)] = [key |-> key, value |-> value]]
             ELSE all

\* the loop over the hits of one variation, from hit n on
RECURSIVE MergeHits(_, _, _)
MergeHits(all, hits, n) ==
    IF n > Len(hits) THEN all
    ELSE MergeHits(
            MergeHit(all, DocId(Templates[hits[n].tpl].metadata, n - 1),
                     [tpl |-> hits[n].tpl,
                      similarity |-> FinalSimilarity(hits[n].distance)]),
            hits, n + 1)

\* the except clause emptying all_results
AfterFailedVariation_Reset(all) == <<>>

\* what the except clause of the loop leaves of all_results when the query of
\* a variation raises: the loop goes on to the next variation
AfterFailedVariation(all) == all

\* an insertion that puts an element before those equal to it
RECURSIVE InsertSorted_TiesFirst(_, _)
InsertSorted_TiesFirst(sorted, e) ==
    IF sorted = <<>> THEN <<e>>
    ELSE IF e.similarity >= Head(sorted).similarity THEN <<e>> \o sorted
    ELSE <<Head(sorted)>> \o InsertSorted_TiesFirst(Tail(sorted), e)

\* sorted(..., key=similarity, reverse=True): a stable sort, equal similarities
\* stay in the order of the dict
RECURSIVE InsertSorted(_, _)
InsertSorted(sorted, e) ==
    IF sorted = <<>> THEN <<e>>
    ELSE IF e.similarity > Head(sorted).similarity THEN <<e>> \o sorted
    ELSE <<Head(sorted)>> \o InsertSorted(Tail(sorted), e)

RECURSIVE SortBySimilarity(_)
SortBySimilarity(values) ==
    IF values = <<>> THEN <<>>
    ELSE InsertSorted(SortBySimilarity(SubSeq(values, 1, Len(values) - 1)),
                      values[Len(values)])

\* sorted_results[:top_k] of all_results.values()
SortedResults(all, top_k) ==
    Take(SortBySimilarity([i \in 1..Len(all) |-> all[i].value]), top_k)

\* the result list WorkingChromaManager.semantic_search builds from the hits
WorkingResults(hits) ==
    [i \in 1..Len(hits) |->
        [tpl |-> hits[i].tpl,
         similarity |-> WorkingSimilarity(hits[i].distance),
         rank |-> i]]

(***************************************************************************)
(* Calls of single functions, checked on their own: the argument of the    *)
(* call, what it returned, and whether it has returned.                    *)
(***************************************************************************)
VARIABLES
    arg,               \* the argument of the call
    result,            \* what the call returned
    stage              \* "idle" (no call), "call" or "returned"

callVars == <<arg, result, stage>>

\* no single call is being checked
NoCall == arg = <<>> /\ result = <<>> /\ stage = "idle"

(***************************************************************************)
(* The processes that host the router: the local web server of             *)
(* run_local_web.py and the backend of argo_web_deployment.                *)
(***************************************************************************)
VARIABLES
    program,           \* "local_web", "backend", or "none" (no process)
    files,             \* the files the process finds on disk
    store,             \* the persistent collection: exists, batches it holds
    rag_system,        \* the rag_system global: 0 (None) or the system built
    connection_pool,   \* the connection_pool global: <<>> (None) or a connection
    connects,          \* calls of duckdb.connect() so far
    init_pc,           \* where the startup logic stands
    responses          \* what the request handler answered, in order

serverVars ==
    <<program, files, store, rag_system, connection_pool, connects, init_pc,
      responses>>

\* no process is followed
ServerIdle ==
    /\ program = "none"
    /\ files = {}
    /\ store = [exists |-> FALSE, count |-> 0]
    /\ rag_system = 0
    /\ connection_pool = <<>>
    /\ connects = 0
    /\ init_pc = "idle"
    /\ responses = <<>>

\* the variables outside the router, and their values while a request is
\* followed through the router
otherVars == <<callVars, serverVars>>

OthersIdle == NoCall /\ ServerIdle

(***************************************************************************)
(* One request through the router: process_enhanced_query of               *)
(* FinalEnhancedRAGSystem or process_query of WorkingRAGSystem.            *)
(***************************************************************************)
VARIABLES
    system,            \* "final" or "working": the class that serves the request
    schema_file,       \* whether the preprocessor could read its schema file
    collection,        \* the templates of the collection, in insertion order
    user_query,        \* the request text (its name in QueryText)
    query_metadata,    \* of what preprocess_query returned, the parts read later
    pc,                \* where the request is
    var_idx,           \* the variations semantic_search has been through
    remote_failed_all, \* no call of _get_api_embeddings has returned embeddings
    query_failed_all,  \* no query of the collection has returned
    last_query_failed, \* the latest query of the collection raised
    all_results,       \* all_results of semantic_search
    rag_results,       \* what semantic_search returned
    thresholds,        \* the cut-offs of the request
    max_similarity,
    rag_sql,
    branch,            \* the branch of the routing decision that was taken
    llm_calls,         \* the calls of the Generation Adapter: context and outcome
    llm_sql,
    final_sql,
    method,            \* QueryResult.method ("" while there is no QueryResult)
    error              \* the exception that left the router ("" if none)

vars == <<otherVars, system, schema_file, collection, user_query, pc, query_metadata,
          var_idx, remote_failed_all, query_failed_all, last_query_failed,
          all_results,
          rag_results, thresholds, max_similarity, rag_sql, branch, llm_calls,
          llm_sql, final_sql, method, error>>

searchVars == <<var_idx, remote_failed_all, query_failed_all, last_query_failed,
               all_results>>

inputVars == <<system, schema_file, collection, user_query>>

routeVars == <<thresholds, max_similarity, rag_sql, branch>>

outputVars == <<llm_calls, llm_sql, final_sql, method, error>>

\* the requests the model submits to the router
RouterQueries ==
    {"count floats", "thermal stratification analysis"}

\* search_variations = [query_metadata['expanded']] + query_metadata['variations'],
\* of which semantic_search takes query_variations[:5]
SearchVariations(qm) == Take(<<qm.expanded>> \o qm.variations, MaxSearched)

\* The parts of query_metadata that process_enhanced_query reads after the
\* call: the intent (the only key of it calculate_thresholds finds) and the
\* variations handed to semantic_search, of which the model keeps the number.
RouterMetadata(qm) ==
    [intent |-> qm.intent, searched |-> Len(SearchVariations(qm))]

Init ==
    /\ OthersIdle
    /\ system \in {"final", "working"}
    /\ schema_file = (IF system = "final" THEN "read" ELSE "missing")
    /\ collection \in Collections
    /\ user_query \in RouterQueries
    /\ pc = "start"
    /\ query_metadata = <<>>
    /\ var_idx = 0
    /\ remote_failed_all = TRUE
    /\ query_failed_all = TRUE
    /\ last_query_failed = FALSE
    /\ all_results = <<>>
    /\ rag_results = <<>>
    /\ thresholds = <<>>
    /\ max_similarity = 0
    /\ rag_sql = <<>>
    /\ branch = ""
    /\ llm_calls = <<>>
    /\ llm_sql = <<>>
    /\ final_sql = <<>>
    /\ method = ""
    /\ error = ""

\* process_enhanced_query, line 671: preprocess_query
Preprocess ==
    /\ pc = "start"
    /\ system = "final"
    /\ query_metadata' = RouterMetadata(Preprocessed[schema_file][user_query])
    /\ pc' = "embed"
    /\ UNCHANGED <<otherVars, inputVars, searchVars, rag_results, routeVars, outputVars>>

\* APIEmbeddingFunction.__call__: what it returns when _get_api_embeddings
\* returns embeddings or None (after its attempts) and the local model embeds
\* or raises.  Every case returns vectors.
EmbeddingSource(remote, local) ==
    IF remote = "embeddings" THEN "api"
    ELSE IF local = "embeddings" THEN "local"
    ELSE "constant"

\* the embedding of the next variation
EmbedVariation ==
    /\ pc = "embed"
    /\ var_idx < query_metadata.searched
    /\ \E remote \in {"embeddings", "None"}, local \in {"embeddings", "raises"} :
          /\ EmbeddingSource(remote, local) \in {"api", "local", "constant"}
          /\ remote_failed_all' = (remote_failed_all /\ remote = "None")
    /\ pc' = "query"
    /\ UNCHANGED <<otherVars, inputVars, query_metadata, var_idx, query_failed_all,
                   last_query_failed, all_results, rag_results, routeVars,
                   outputVars>>

\* one pass of the loop of semantic_search: the query of the collection raises
\* and the except clause goes on, or it returns hits and they are merged
QueryVariation ==
    /\ pc = "query"
    /\ \/ /\ all_results' = AfterFailedVariation(all_results)
          /\ last_query_failed' = TRUE
          /\ UNCHANGED query_failed_all
       \/ \E hits \in FinalResponses[collection] :
             /\ all_results' = MergeHits(all_results, hits, 1)
             /\ last_query_failed' = FALSE
             /\ query_failed_all' = FALSE
    /\ var_idx' = var_idx + 1
    /\ pc' = "embed"
    /\ UNCHANGED <<otherVars, inputVars, query_metadata, remote_failed_all, rag_results,
                   routeVars, outputVars>>

\* the end of semantic_search: sort and cut to top_k
FinishSearch ==
    /\ pc = "embed"
    /\ var_idx = query_metadata.searched
    /\ rag_results' = SortedResults(all_results, TopKFinal)
    /\ pc' = "extract"
    /\ UNCHANGED <<otherVars, inputVars, query_metadata, searchVars, routeVars, outputVars>>

\* WorkingChromaManager.semantic_search, called by process_query with the
\* request text: one query of the collection, [] when it raises
WorkingSearch ==
    /\ pc = "start"
    /\ system = "working"
    /\ \/ /\ rag_results' = <<>>
          /\ last_query_failed' = TRUE
          /\ UNCHANGED query_failed_all
       \/ \E hits \in WorkingResponses[collection] :
             /\ rag_results' = WorkingResults(hits)
             /\ last_query_failed' = FALSE
             /\ query_failed_all' = FALSE
    /\ var_idx' = 1
    /\ pc' = "extract"
    /\ UNCHANGED <<otherVars, inputVars, query_metadata, remote_failed_all,
                   all_results, routeVars, outputVars>>

\* best_rag_metadata = rag_results[0]['metadata'] if rag_results else {}
BestRagMetadata(results) ==
    IF results # <<>> THEN Templates[results[1].tpl].metadata ELSE <<>>

\* the similarity of an empty result list taken as 1.0
MaxSimilarity_DefaultOne(results) ==
    IF results # <<>> THEN results[1].similarity ELSE 100

\* max_similarity = rag_results[0]['similarity'] if rag_results else 0.0
MaxSimilarity(results) == IF results # <<>> THEN results[1].similarity ELSE 0

\* process_enhanced_query, lines 677-699: the thresholds, the best similarity
\* and the extraction from the best document, which may raise
ExtractStep ==
    /\ pc = "extract"
    /\ system = "final"
    /\ thresholds' = calculate_thresholds(query_metadata, BestRagMetadata(rag_results))
    /\ max_similarity' = MaxSimilarity(rag_results)
    /\ LET x == IF rag_results # <<>>
                THEN ExtractRagSql(Templates[rag_results[1].tpl].content)
                ELSE [raised |-> FALSE, sql |-> <<>>]
       IN  /\ rag_sql' = x.sql
           /\ pc' = IF x.raised THEN "raised" ELSE "route"
           /\ error' = IF x.raised THEN "IndexError" ELSE ""
    /\ UNCHANGED <<otherVars, inputVars, query_metadata, searchVars, rag_results, branch,
                   llm_calls, llm_sql, final_sql, method>>

\* process_query, lines 275-291, with the static cut-offs of lines 294 and 297
WorkingExtractStep ==
    /\ pc = "extract"
    /\ system = "working"
    /\ thresholds' = [high_similarity |-> WorkingHigh, medium_similarity |-> WorkingMedium]
    /\ max_similarity' = MaxSimilarity(rag_results)
    /\ rag_sql' = IF rag_results # <<>>
                  THEN WorkingExtractRagSql(Templates[rag_results[1].tpl].content)
                  ELSE <<>>
    /\ pc' = "route"
    /\ UNCHANGED <<otherVars, inputVars, query_metadata, searchVars, rag_results, branch,
                   outputVars>>

\* the three QueryResult.method values
Tiers ==
    {"rag_direct_high_similarity", "llm_enhanced_medium_similarity",
     "llm_generated_low_similarity"}

\* the first branch taken only above the high threshold, not at it
RouteFinal_StrictHigh(similarity, th, sql, results) ==
    IF similarity > th.high_similarity /\ sql # <<>>
    THEN "rag_direct_high_similarity"
    ELSE IF similarity >= th.medium_similarity /\ results # <<>>
    THEN "llm_enhanced_medium_similarity"
    ELSE "llm_generated_low_similarity"

\* the if / elif / else of process_enhanced_query, lines 702-716
RouteFinal(similarity, th, sql, results) ==
    IF similarity >= th.high_similarity /\ sql # <<>>
    THEN "rag_direct_high_similarity"
    ELSE IF similarity >= th.medium_similarity /\ results # <<>>
    THEN "llm_enhanced_medium_similarity"
    ELSE "llm_generated_low_similarity"

\* the if / elif / else of process_query, lines 294-304
RouteWorking(similarity, th, sql) ==
    IF similarity >= th.high_similarity /\ sql # <<>>
    THEN "rag_direct_high_similarity"
    ELSE IF similarity >= th.medium_similarity
    THEN "llm_enhanced_medium_similarity"
    ELSE "llm_generated_low_similarity"

\* the branch taken; the direct branch builds the QueryResult at once
RouteStep ==
    /\ pc = "route"
    /\ branch' = IF system = "final"
                 THEN RouteFinal(max_similarity, thresholds, rag_sql, rag_results)
                 ELSE RouteWorking(max_similarity, thresholds, rag_sql)
    /\ IF branch' = "rag_direct_high_similarity"
       THEN /\ final_sql' = rag_sql
            /\ method' = branch'
            /\ pc' = "done"
       ELSE /\ pc' = "generate"
            /\ UNCHANGED <<final_sql, method>>
    /\ UNCHANGED <<otherVars, inputVars, query_metadata, searchVars, rag_results, thresholds,
                   max_similarity, rag_sql, llm_calls, llm_sql, error>>

\* the rag_context argument of the adapter call in the two branches that call
\* it, and the part of it that reaches the prompt
AdapterContext(br, results) == Take(results, ContextSize)

\* final_sql of the two branches that call the adapter
FinalSql(br, generated, sql) ==
    IF br = "llm_enhanced_medium_similarity"
    THEN (IF generated # <<>> THEN generated ELSE sql)
    ELSE generated

\* the adapter call with a tier tag that follows the adapter: a refinement
\* that fell back on the template is tagged as a direct reuse
GenerateStep_TierFromAdapter ==
    /\ pc = "generate"
    /\ \E outcome \in LLMOutcomes :
          LET r == generate_sql_with_llm(outcome)
          IN  /\ llm_calls' = Append(llm_calls,
                                     [context |-> AdapterContext(branch, rag_results),
                                      outcome |-> outcome])
              /\ IF r.raised
                 THEN /\ pc' = "raised"
                      /\ error' = "GenerationError"
                      /\ UNCHANGED <<llm_sql, final_sql, method>>
                 ELSE /\ llm_sql' = r.sql
                      /\ final_sql' = FinalSql(branch, r.sql, rag_sql)
                      /\ method' = IF branch = "llm_enhanced_medium_similarity"
                                       /\ r.sql = <<>>
                                    THEN "rag_direct_high_similarity"
                                    ELSE branch
                      /\ pc' = "done"
                      /\ UNCHANGED error
    /\ UNCHANGED <<otherVars, inputVars, query_metadata, searchVars, rag_results, routeVars>>

\* the adapter call of the branch taken, and the QueryResult
GenerateStep ==
    /\ pc = "generate"
    /\ \E outcome \in LLMOutcomes :
          LET r == generate_sql_with_llm(outcome)
          IN  /\ llm_calls' = Append(llm_calls,
                                     [context |-> AdapterContext(branch, rag_results),
                                      outcome |-> outcome])
              /\ IF r.raised
                 THEN /\ pc' = "raised"
                      /\ error' = "GenerationError"
                      /\ UNCHANGED <<llm_sql, final_sql, method>>
                 ELSE /\ llm_sql' = r.sql
                      /\ final_sql' = FinalSql(branch, r.sql, rag_sql)
                      /\ method' = branch
                      /\ pc' = "done"
                      /\ UNCHANGED error
    /\ UNCHANGED <<otherVars, inputVars, query_metadata, searchVars, rag_results, routeVars>>

Next ==
    \/ Preprocess
    \/ EmbedVariation
    \/ QueryVariation
    \/ FinishSearch
    \/ WorkingSearch
    \/ ExtractStep
    \/ WorkingExtractStep
    \/ RouteStep
    \/ GenerateStep

Spec == Init /\ [][Next]_vars

(***************************************************************************)
(* The claims about the router, checked under Spec.                        *)
(***************************************************************************)
\* the request is past semantic_search
Searched == pc \in {"extract", "route", "generate", "done", "raised"}

\* the request is past the routing decision
Routed == pc \in {"generate", "done"}

\* the request has ended: a QueryResult was returned, or an exception left
\* the router
Ended == pc \in {"done", "raised"}

\* the condition of the first branch, on what the request computed
DirectCondition ==
    max_similarity >= thresholds.high_similarity /\ rag_sql # <<>>

\* the condition of the second branch
MediumCondition ==
    max_similarity >= thresholds.medium_similarity /\ rag_results # <<>>

\* C1: the tier is DirectReuse exactly when the top similarity is at least the
\* high threshold (0.45 with cut-offs 0.45/0.25 in WorkingRAGSystem) and a
\* query string was extracted from the top template; the final query is then
\* the extracted string itself and the Generation Adapter was not called.
C1_DirectReuseRule ==
    /\ (system = "working" /\ pc \in {"route", "generate", "done"})
          => /\ thresholds.high_similarity = 45
             /\ thresholds.medium_similarity = 25
    /\ (Routed \/ Ended)
          => /\ (branch = "rag_direct_high_similarity") <=> DirectCondition
             /\ (method = "rag_direct_high_similarity")
                   <=> (branch = "rag_direct_high_similarity")
             /\ branch = "rag_direct_high_similarity"
                   => /\ pc = "done"
                      /\ final_sql = rag_sql
                      /\ llm_calls = <<>>

\* a request served by DirectReuse with the top similarity equal to the high
\* threshold
C1_Witness ==
    /\ pc = "done"
    /\ system = "final"
    /\ method = "rag_direct_high_similarity"
    /\ max_similarity = thresholds.high_similarity
    /\ final_sql # <<>>
    /\ final_sql = rag_sql

\* C2 (as stated): whenever DirectReuse does not apply and the top similarity
\* is at least the medium threshold with a candidate, the request ends in
\* LLMEnhanced, the adapter called once with the top candidates, and the final
\* query is the adapter's text, or the extracted string when that is empty.
C2_Original ==
    (Ended /\ ~DirectCondition /\ MediumCondition)
       => /\ method = "llm_enhanced_medium_similarity"
          /\ Len(llm_calls) = 1
          /\ llm_calls[1].context = Take(rag_results, ContextSize)
          /\ final_sql = (IF llm_sql # <<>> THEN llm_sql ELSE rag_sql)

\* C3 (as stated): in every other case the request ends in LLMGenerated, the
\* adapter called with no retrieved candidate as context, and the final query
\* is what the adapter returned.
C3_Original ==
    (Ended /\ ~DirectCondition /\ ~MediumCondition)
       => /\ method = "llm_generated_low_similarity"
          /\ Len(llm_calls) = 1
          /\ llm_calls[1].context = <<>>
          /\ final_sql = llm_sql

\* C4 (as stated): a call of process_enhanced_query that has ended returned a
\* QueryResult with one of the three tier tags; no exception left the router.
C4_Original ==
    (system = "final" /\ Ended)
       => /\ pc = "done"
          /\ error = ""
          /\ method \in Tiers

\* C5 (as stated): "count floats" whose best result is the count template of
\* table floats at similarity 0.52 is served by DirectReuse, and the final
\* query is exactly SELECT COUNT(*) FROM floats.
C5_Original ==
    (/\ system = "final"
     /\ Ended
     /\ user_query = "count floats"
     /\ rag_results # <<>>
     /\ rag_results[1].tpl = "count_floats"
     /\ rag_results[1].similarity = 52)
       => /\ method = "rag_direct_high_similarity"
          /\ final_sql = CountFloatsSql

C7_SearchDegrades ==
    /\ [](pc \in {"embed", "query", "extract"} => error = "")
    /\ []((Searched /\ query_failed_all) => rag_results = <<>>)
    /\ []((system = "final" /\ Searched)
             => /\ Len(rag_results) = Min2(Len(all_results), TopKFinal)
                /\ \A i \in 1..Len(all_results) :
                      Len(all_results) <= TopKFinal
                         => \E j \in 1..Len(rag_results) :
                               rag_results[j] = all_results[i].value)
    /\ [][(var_idx' = var_idx + 1 /\ last_query_failed')
             => all_results' = all_results]_vars

\* semantic_search returned results although the query of its last variation
\* raised
C7_Witness ==
    /\ system = "final"
    /\ pc = "extract"
    /\ last_query_failed
    /\ ~query_failed_all
    /\ Len(rag_results) = 2

\* the latest call of the Generation Adapter failed: the completion call
\* raised, or the completion was empty
AdapterFailed ==
    /\ llm_calls # <<>>
    /\ \/ llm_calls[Len(llm_calls)].outcome.raised
       \/ llm_calls[Len(llm_calls)].outcome.content = <<>>

\* C8: a failure of the Generation Adapter never aborts the request:
\* generate_sql_with_llm / generate_sql return the empty string and the router
\* returns a QueryResult whose tier tag is the one chosen before the call.
C8_AdapterFailureSwallowed ==
    /\ error # "GenerationError"
    /\ llm_calls # <<>> => pc = "done"
    /\ AdapterFailed
          => /\ llm_sql = <<>>
             /\ method = branch
             /\ method \in {"llm_enhanced_medium_similarity",
                            "llm_generated_low_similarity"}

\* the completion call raised in the LLMEnhanced branch, and the QueryResult
\* carries the extracted string
C8_Witness ==
    /\ pc = "done"
    /\ llm_calls # <<>>
    /\ llm_calls[1].outcome.raised
    /\ method = "llm_enhanced_medium_similarity"
    /\ final_sql = rag_sql
    /\ rag_sql # <<>>

\* the statement a template holds: its labelled field, its bare statement, or
\* none
StatementOf(tpl) ==
    CASE tpl = "count_floats" -> CountFloatsSql
      [] tpl = "col_float_id" -> Phrase(<<"SELECT", "float_id", "FROM", "floats">>)
      [] tpl = "bare_select" -> Phrase(<<"SELECT", "*", "FROM", "floats">>)
      [] tpl = "no_statement" -> <<>>

\* C9 (as stated): extraction from the best document never raises, and yields
\* the statement of its labelled field, else its bare statement, else nothing.
C9_Original ==
    (pc \in {"route", "generate", "done", "raised"} /\ rag_results # <<>>)
       => /\ pc # "raised"
          /\ rag_sql = StatementOf(rag_results[1].tpl)

\* the completion of the latest adapter call was a fenced block holding a
\* statement that ends in a terminator
FencedCompletion ==
    /\ llm_calls # <<>>
    /\ ~llm_calls[Len(llm_calls)].outcome.raised
    /\ llm_calls[Len(llm_calls)].outcome.content
          \in {Fenced(<<"sql">>, GenStmt \o <<";">>), Fenced(<<>>, GenStmt \o <<";">>)}

\* C10 (as stated): when the adapter's completion is a fenced block, tagged or
\* not, with a statement ending in a terminator, the final query is the bare
\* statement.
C10_Original ==
    (pc = "done" /\ FencedCompletion) => final_sql = GenStmt

(***************************************************************************)
(* The corpus generator, create_optimized_chromadb_data, on a schema       *)
(* analysis: for each table its name, its columns (name and dtype) and its *)
(* row count where the analysis has one.                                   *)
(***************************************************************************)
\* the tables of a schema analysis, in the order of the file
GeneratorTables ==
    << [table |-> "floats",
        columns |-> << [name |-> "float_id", dtype |-> "int64"],
                       [name |-> "current_status", dtype |-> "object"] >>,
        row_count |-> "4000"],
       [table |-> "profiles",
        columns |-> << [name |-> "profile_id", dtype |-> "int64"] >>,
        row_count |-> "unknown"],
       [table |-> "measurements",
        columns |-> << [name |-> "temperature", dtype |-> "float64"] >>,
        row_count |-> "90000"] >>

\* the schema analyses the generator is run on: any of the tables, in order
GeneratorSchemas ==
    {sch \in UNION {[1..n -> Range(GeneratorTables)] : n \in 0..Len(GeneratorTables)} :
        \A i, j \in 1..Len(sch) :
            i < j => \E a, b \in 1..Len(GeneratorTables) :
                        a < b /\ GeneratorTables[a] = sch[i] /\ GeneratorTables[b] = sch[j]}

\* 'floats' in schema_info, 'measurements' in schema_info
HasTable(schema, name) == \E i \in 1..Len(schema) : schema[i].table = name

TableNamed(schema, name) == schema[CHOOSE i \in 1..Len(schema) : schema[i].table = name]

\* ', '.join of the column names of a table
RECURSIVE ColumnList(_)
ColumnList(columns) ==
    IF columns = <<>> THEN <<>>
    ELSE IF Len(columns) = 1 THEN <<columns[1].name>>
    ELSE <<columns[1].name, ",", " ">> \o ColumnList(Tail(columns))

\* enhanced_content.strip() of the labelled lines of a template
Content(lines) == Strip(<<"\n">> \o Flatten(lines))

\* the three queries of one column: get, show, list
ColumnQueries(table_name, col_name) ==
    << [content |-> Phrase(<<"get", col_name>>),
        sql |-> Phrase(<<"SELECT", col_name, "FROM", table_name>>),
        intent |-> Phrase(<<"retrieve", col_name, "values", "from", table_name>>),
        context |-> Phrase(<<"Direct", "access", "to", col_name, "column", "in",
                             table_name, "table">>)],
       [content |-> Phrase(<<"show", col_name>>),
        sql |-> Phrase(<<"SELECT", col_name, "FROM", table_name, "LIMIT", "100">>),
        intent |-> Phrase(<<"display", col_name, "data", "from", table_name>>),
        context |-> Phrase(<<"Limited", "view", "of", col_name, "column", "data">>)],
       [content |-> Phrase(<<"list", col_name>>),
        sql |-> Phrase(<<"SELECT", "DISTINCT", col_name, "FROM", table_name>>),
        intent |-> Phrase(<<"list", "unique", col_name, "values">>),
        context |-> Phrase(<<"Unique", "values", "in", col_name, "column">>)] >>

\* the template of one query of one column
ColumnQueryTemplate(table_name, col, query) ==
    [prefix |-> "col",
     sql |-> query.sql,
     content |-> Content(<<
        Line("Column Query:", query.content),
        Line("Intent:", query.intent),
        Line("Context:", query.context),
        Line("Table:", <<table_name>>),
        Line("Column:", <<col.name>>),
        Line("Data Type:", <<col.dtype>>),
        Line("SQL:", query.sql),
        Line("Usage:", Phrase(<<"Direct", "column", "access", "for", "data",
                                "extraction">>)) >>),
     metadata |-> [type |-> "column_query", table |-> table_name,
                   column |-> col.name, category |-> "direct_access",
                   complexity |-> "simple", data_type |-> col.dtype]]

\* 1. DIRECT COLUMN QUERIES of one table
RECURSIVE ColumnTemplatesOf(_, _)
ColumnTemplatesOf(table, columns) ==
    IF columns = <<>> THEN <<>>
    ELSE [k \in 1..3 |->
             ColumnQueryTemplate(table.table, columns[1],
                                 ColumnQueries(table.table, columns[1].name)[k])]
         \o ColumnTemplatesOf(table, Tail(columns))

RECURSIVE ColumnTemplates(_)
ColumnTemplates(schema) ==
    IF schema = <<>> THEN <<>>
    ELSE ColumnTemplatesOf(schema[1], schema[1].columns) \o ColumnTemplates(Tail(schema))

\* the queries of the floats table, each with its variations
float_queries ==
    << [sql |-> Phrase(<<"SELECT", "*", "FROM", "floats">>),
        intent |-> Phrase(<<"retrieve", "all", "float", "records">>),
        variations |-> << Phrase(<<"all", "floats">>), Phrase(<<"show", "all", "floats">>),
                          Phrase(<<"get", "floats">>), Phrase(<<"list", "floats">>),
                          Phrase(<<"float", "data">>) >>],
       [sql |-> Phrase(<<"SELECT", "float_id", "FROM", "floats">>),
        intent |-> Phrase(<<"get", "float", "identification", "numbers">>),
        variations |-> << Phrase(<<"float", "identifiers">>), Phrase(<<"float", "id">>),
                          Phrase(<<"float", "ids">>), Phrase(<<"show", "float", "id">>),
                          Phrase(<<"get", "float", "identifiers">>) >>],
       [sql |-> Phrase(<<"SELECT", "*", "FROM", "floats", "WHERE", "current_status",
                         "=", "'ACTIVE'">>),
        intent |-> Phrase(<<"retrieve", "operational", "floats">>),
        variations |-> << Phrase(<<"active", "floats">>), Phrase(<<"operational", "floats">>),
                          Phrase(<<"working", "floats">>), Phrase(<<"live", "floats">>) >>] >>

\* the template of one variation of a floats query
FloatTemplate(schema, query, variation) ==
    [prefix |-> "float",
     sql |-> query.sql,
     content |-> Content(<<
        Line("Float Query:", variation),
        Line("Intent:", query.intent),
        Line("Table:", <<"floats">>),
        Line("SQL:", query.sql),
        Line("Context:", Phrase(<<"ARGO", "float", "database", "query", "for",
                                  "float", "information">>)),
        Line("Usage:", Phrase(<<"Extract", "float", "data", "from", "the", "floats",
                                "table">>)),
        Line("Related Columns:", ColumnList(TableNamed(schema, "floats").columns)) >>),
     metadata |-> [type |-> "table_query", table |-> "floats",
                   category |-> "float_operations", complexity |-> "simple",
                   intent |-> query.intent]]

\* the queries of the measurements table, each with its variations
measurement_queries ==
    << [sql |-> Phrase(<<"SELECT", "temperature", "FROM", "measurements", "WHERE",
                         "temperature_qc", "<=", "2">>),
        intent |-> Phrase(<<"retrieve", "quality", "temperature", "measurements">>),
        variations |-> << Phrase(<<"temperature", "data">>), Phrase(<<"temp", "data">>),
                          Phrase(<<"temperature", "values">>), Phrase(<<"get", "temperature">>),
                          Phrase(<<"show", "temperature">>) >>],
       [sql |-> Phrase(<<"SELECT", "salinity", "FROM", "measurements", "WHERE",
                         "salinity_qc", "<=", "2">>),
        intent |-> Phrase(<<"retrieve", "quality", "salinity", "measurements">>),
        variations |-> << Phrase(<<"salinity", "data">>), Phrase(<<"sal", "data">>),
                          Phrase(<<"salinity", "values">>), Phrase(<<"get", "salinity">>),
                          Phrase(<<"show", "salinity">>) >>],
       [sql |-> Phrase(<<"SELECT", "pressure", "FROM", "measurements">>),
        intent |-> Phrase(<<"retrieve", "pressure", "measurements">>),
        variations |-> << Phrase(<<"pressure", "data">>), Phrase(<<"pressure", "values">>),
                          Phrase(<<"get", "pressure">>), Phrase(<<"show", "pressure">>),
                          Phrase(<<"depth", "data">>) >>],
       [sql |-> Phrase(<<"SELECT", "pressure,", "temperature,", "salinity", "FROM",
                         "measurements", "WHERE", "temperature_qc", "<=", "2", "AND",
                         "salinity_qc", "<=", "2">>),
        intent |-> Phrase(<<"retrieve", "quality", "oceanographic", "measurements">>),
        variations |-> << Phrase(<<"measurement", "data">>), <<"measurements">>,
                          Phrase(<<"ocean", "data">>), Phrase(<<"sensor", "data">>),
                          Phrase(<<"CTD", "data">>) >>] >>

\* the template of one variation of a measurements query
MeasurementTemplate(schema, query, variation) ==
    [prefix |-> "meas",
     sql |-> query.sql,
     content |-> Content(<<
        Line("Measurement Query:", variation),
        Line("Intent:", query.intent),
        Line("Table:", <<"measurements">>),
        Line("SQL:", query.sql),
        Line("Context:", Phrase(<<"Oceanographic", "measurement", "data", "from",
                                  "ARGO", "CTD", "sensors">>)),
        Line("Usage:", Phrase(<<"Extract", "oceanographic", "parameters",
                                "(temperature,", "salinity,", "pressure)">>)),
        Line("Quality Control:", Phrase(<<"Includes", "quality", "flags", "for",
                                          "data", "reliability">>)),
        Line("Related Columns:",
             ColumnList(TableNamed(schema, "measurements").columns)) >>),
     metadata |-> [type |-> "measurement_query", table |-> "measurements",
                   category |-> "oceanographic_data", complexity |-> "simple",
                   intent |-> query.intent]]

\* the count query of one table with its variations
CountVariations(table_name) ==
    << Phrase(<<"count", table_name>>), Phrase(<<"how", "many", table_name>>),
       Phrase(<<"total", table_name>>), Phrase(<<"number", "of", table_name>>) >>

\* 3. COUNT/STATISTICS QUERIES of every table
RECURSIVE CountTemplates(_)
CountTemplates(schema) ==
    IF schema = <<>> THEN <<>>
    ELSE [k \in 1..4 |->
             CountTemplate(schema[1].table, CountVariations(schema[1].table)[k],
                           schema[1].row_count)
             @@ [prefix |-> "count",
                 sql |-> Phrase(<<"SELECT", "COUNT(*)", "FROM", schema[1].table>>)]]
         \o CountTemplates(Tail(schema))

\* 4. JOIN QUERIES, each with its variations
join_queries ==
    << [sql |-> Phrase(<<"SELECT", "f.float_id,", "f.wmo_number,", "p.profile_id,",
                         "p.profile_date", "FROM", "floats", "f", "JOIN", "profiles",
                         "p", "ON", "f.float_id", "=", "p.float_id">>),
        intent |-> Phrase(<<"retrieve", "float", "profile", "relationships">>),
        variations |-> << Phrase(<<"float", "profiles">>),
                          Phrase(<<"profiles", "for", "floats">>),
                          Phrase(<<"float", "profile", "data">>),
                          Phrase(<<"linked", "profiles">>) >>],
       [sql |-> Phrase(<<"SELECT", "p.profile_id,", "p.profile_date,", "m.pressure,",
                         "m.temperature,", "m.salinity", "FROM", "profiles", "p",
                         "JOIN", "measurements", "m", "ON", "p.profile_id", "=",
                         "m.profile_id", "WHERE", "m.temperature_qc", "<=", "2">>),
        intent |-> Phrase(<<"retrieve", "profile", "measurement", "data">>),
        variations |-> << Phrase(<<"profile", "measurements">>),
                          Phrase(<<"measurements", "for", "profiles">>),
                          Phrase(<<"profile", "data">>),
                          Phrase(<<"oceanographic", "profiles">>) >>] >>

\* the template of one variation of a join query
JoinTemplate(query, variation) ==
    [prefix |-> "join",
     sql |-> query.sql,
     content |-> Content(<<
        Line("Join Query:", variation),
        Line("Intent:", query.intent),
        Line("Tables:", Phrase(<<"Multiple", "tables", "with", "relationships">>)),
        Line("SQL:", query.sql),
        Line("Context:", Phrase(<<"Relational", "query", "combining", "data", "from",
                                  "linked", "tables">>)),
        Line("Usage:", Phrase(<<"Extract", "related", "data", "across", "table",
                                "relationships">>)) >>),
     metadata |-> [type |-> "join_query", category |-> "relational",
                   complexity |-> "medium", intent |-> query.intent]]

\* for query in queries: for variation in [content] + variations: one template
Variants(queries, Build(_, _)) ==
    Flatten([q \in 1..Len(queries) |->
                [k \in 1..Len(queries[q].variations) |->
                    Build(queries[q], queries[q].variations[k])]])

\* the templates in the order the generator appends them, before their ids
GeneratedTemplates(schema) ==
    LET BuildFloat(q, v) == FloatTemplate(schema, q, v)
        BuildMeasurement(q, v) == MeasurementTemplate(schema, q, v)
    IN  ColumnTemplates(schema)
        \o (IF HasTable(schema, "floats")
            THEN Variants(float_queries, BuildFloat) ELSE <<>>)
        \o (IF HasTable(schema, "measurements")
            THEN Variants(measurement_queries, BuildMeasurement) ELSE <<>>)
        \o CountTemplates(schema)
        \o Variants(join_queries, JoinTemplate)

\* create_optimized_chromadb_data: query_id counts the templates from 1, and
\* the id of a template is its family prefix and that number
create_optimized_chromadb_data(schema) ==
    LET all == GeneratedTemplates(schema)
    IN  [i \in 1..Len(all) |->
            [id |-> <<all[i].prefix, i>>,
             sql |-> all[i].sql,
             content |-> all[i].content,
             metadata |-> all[i].metadata]]

(***************************************************************************)
(* The router at rest, while a single function is checked on its own.      *)
(***************************************************************************)
routerVars ==
    <<system, schema_file, collection, user_query, pc, query_metadata, var_idx,
      remote_failed_all, query_failed_all, last_query_failed, all_results,
      rag_results, thresholds, max_similarity, rag_sql, branch, llm_calls,
      llm_sql, final_sql, method, error>>

RouterIdle ==
    /\ system = "none"
    /\ schema_file = "missing"
    /\ collection = <<>>
    /\ user_query = ""
    /\ pc = "idle"
    /\ query_metadata = <<>>
    /\ var_idx = 0
    /\ remote_failed_all = TRUE
    /\ query_failed_all = TRUE
    /\ last_query_failed = FALSE
    /\ all_results = <<>>
    /\ rag_results = <<>>
    /\ thresholds = <<>>
    /\ max_similarity = 0
    /\ rag_sql = <<>>
    /\ branch = ""
    /\ llm_calls = <<>>
    /\ llm_sql = <<>>
    /\ final_sql = <<>>
    /\ method = ""
    /\ error = ""

(***************************************************************************)
(* SpecExtract: the extraction rules of the two routers applied to a       *)
(* template of the generator.                                              *)
(***************************************************************************)
\* every template the generator builds on one of the schema analyses
GeneratedCorpus ==
    UNION {Range(create_optimized_chromadb_data(sch)) : sch \in GeneratorSchemas}

ExtractInit ==
    /\ RouterIdle
    /\ ServerIdle
    /\ arg \in [rules : {"final", "working"}, template : GeneratedCorpus]
    /\ result = <<>>
    /\ stage = "call"

\* the extraction block of process_enhanced_query (lines 685-699) or of
\* process_query (lines 279-291) on the document of the template
ExtractCall ==
    /\ stage = "call"
    /\ result' = IF arg.rules = "final"
                 THEN ExtractRagSql(arg.template.content)
                 ELSE [raised |-> FALSE,
                       sql |-> WorkingExtractRagSql(arg.template.content)]
    /\ stage' = "returned"
    /\ UNCHANGED <<arg, routerVars, serverVars>>

ExtractNext == ExtractCall

SpecExtract == ExtractInit /\ [][ExtractNext]_vars

\* C11: for every template the corpus generator builds, the extraction rules
\* of the router applied to its content do not raise and yield a non-empty
\* string that contains the keyword SELECT.
C11_TemplatesExtractable ==
    stage = "returned"
       => /\ ~result.raised
          /\ result.sql # <<>>
          /\ \E i \in 1..Len(result.sql) : IsSelect(result.sql[i])

\* the rules of process_enhanced_query have extracted from a join template
C11_Witness ==
    /\ stage = "returned"
    /\ arg.rules = "final"
    /\ arg.template.metadata.type = "join_query"
    /\ result.sql # <<>>
    /\ IsSelect(result.sql[1])

(***************************************************************************)
(* SpecExecute: execute_query of EnhancedParquetEngine and of              *)
(* WorkingRAGSystem on a query text, for what the engine may do with it.   *)
(***************************************************************************)
\* the query texts handed to execute_query
SqlTexts ==
    { <<>>,
      <<" ">>,
      GenStmt,
      <<" ">> \o GenStmt \o <<";", "\n">>,
      Phrase(<<"DROP", "it">>) }

\* What conn.execute(sql).fetchall() and conn.description give: rows under
\* their columns, no result set (description is None, so the comprehension
\* over it raises TypeError), or an exception of the engine, of whose message
\* the model keeps the substrings the except clause looks for.
EngineOutcomes ==
    {[kind |-> "rows", columns |-> cols, rows |-> rows] :
        cols \in {<<"temperature">>, <<"float_id", "wmo_number">>, <<"id", "id">>},
        rows \in {<<>>, <<<<1, 2>>>>, <<<<1, 2>>, <<3, 4>>>>}}
    \cup {[kind |-> "no_result_set"]}
    \cup {[kind |-> "error", message |-> m] :
            m \in SUBSET {"table", "column", "does not exist"}}

\* dict(zip(columns, row)): a later column of the same name overwrites
RowDict(columns, row) ==
    LET n == Min2(Len(columns), Len(row))
    IN  [c \in {columns[i] : i \in 1..n} |->
            row[CHOOSE i \in 1..n :
                   columns[i] = c /\ \A j \in 1..n : columns[j] = c => j <= i]]

\* the suggestion the except clause of EnhancedParquetEngine prints
ErrorHint(error_msg) ==
    IF "table" \in error_msg /\ "does not exist" \in error_msg THEN "available_tables"
    ELSE IF "column" \in error_msg /\ "does not exist" \in error_msg THEN "check_columns"
    ELSE "none"

\* execute_query raising the engine's exception again after logging it
execute_query_Reraises(engine, sql, outcome) ==
    [raised |-> outcome.kind # "rows",
     executed |-> RStripSemi(Strip(sql)),
     data |-> IF outcome.kind = "rows"
              THEN [i \in 1..Len(outcome.rows) |->
                       RowDict(outcome.columns, outcome.rows[i])]
              ELSE <<>>,
     success |-> outcome.kind = "rows",
     hint |-> "none"]

\* execute_query: what is executed, what is returned, what is logged
execute_query(engine, sql, outcome) ==
    LET cleaned == RStripSemi(Strip(sql))
    IN  IF outcome.kind = "rows"
        THEN [raised |-> FALSE,
              executed |-> cleaned,
              data |-> [i \in 1..Len(outcome.rows) |->
                           RowDict(outcome.columns, outcome.rows[i])],
              success |-> TRUE,
              hint |-> "none"]
        ELSE [raised |-> FALSE,
              executed |-> cleaned,
              data |-> <<>>,
              success |-> FALSE,
              hint |-> IF engine = "final" /\ outcome.kind = "error"
                       THEN ErrorHint(outcome.message) ELSE "none"]

ExecuteInit ==
    /\ RouterIdle
    /\ ServerIdle
    /\ arg \in [engine : {"final", "working"}, sql : SqlTexts, outcome : EngineOutcomes]
    /\ result = <<>>
    /\ stage = "call"

ExecuteCall ==
    /\ stage = "call"
    /\ result' = execute_query(arg.engine, arg.sql, arg.outcome)
    /\ stage' = "returned"
    /\ UNCHANGED <<arg, routerVars, serverVars>>

SpecExecute == ExecuteInit /\ [][ExecuteCall]_vars

\* C12: execute_query never raises; it returns the rows, each a mapping keyed
\* by column name, with true, or no rows with false, and the kind of error
\* changes only what is logged.
C12_ExecuteNeverRaises ==
    stage = "returned"
       => /\ ~result.raised
          /\ arg.outcome.kind = "rows"
                => /\ result.success
                   /\ Len(result.data) = Len(arg.outcome.rows)
                   /\ \A i \in 1..Len(result.data) :
                         /\ DOMAIN result.data[i] = Range(arg.outcome.columns)
                         /\ \A c \in DOMAIN result.data[i] :
                               \E k \in 1..Len(arg.outcome.columns) :
                                  /\ arg.outcome.columns[k] = c
                                  /\ result.data[i][c] = arg.outcome.rows[i][k]
          /\ arg.outcome.kind # "rows"
                => /\ ~result.success
                   /\ result.data = <<>>

\* the engine rejected the text for a missing table: the hint was logged and
\* the pair returned is (no rows, false)
C12_Witness ==
    /\ stage = "returned"
    /\ arg.engine = "final"
    /\ arg.outcome.kind = "error"
    /\ result.hint = "available_tables"
    /\ result.data = <<>>
    /\ ~result.success

(***************************************************************************)
(* SpecThresholds: calculate_thresholds called on its own, on request      *)
(* metadata whose keys may be missing or unknown to the tables, and on the *)
(* metadata of the best candidate (none, without a type, or with one).     *)
(***************************************************************************)
\* a value that is a key of no adjustment table
UnknownKey == "unknown"

MetadataKeys == {"type", "complexity", "intent"}

\* request metadata: every subset of the three keys, each key with a value
\* of its table or an unknown one
QueryMetadataInputs ==
    { [k \in K |-> f[k]] :
        f \in [type : DOMAIN adjustments.query_type \cup {UnknownKey},
               complexity : DOMAIN adjustments.complexity \cup {UnknownKey},
               intent : DOMAIN adjustments.intent \cup {UnknownKey}],
        K \in SUBSET MetadataKeys }

\* metadata of the best candidate: None or {} (the same to the test
\* "rag_metadata and ..."), a dict without 'type', a dict with a type
RagMetadataInputs ==
    {<<>>, [category |-> "schema_access"]}
       \cup { [type |-> t] : t \in DOMAIN adjustments.query_type \cup {UnknownKey} }

ThresholdsInit ==
    /\ RouterIdle
    /\ ServerIdle
    /\ arg \in [query_metadata : QueryMetadataInputs,
                rag_metadata : RagMetadataInputs]
    /\ result = <<>>
    /\ stage = "call"

ThresholdsCall ==
    /\ stage = "call"
    /\ result' = calculate_thresholds(arg.query_metadata, arg.rag_metadata)
    /\ stage' = "returned"
    /\ UNCHANGED <<arg, routerVars, serverVars>>

SpecThresholds == ThresholdsInit /\ [][ThresholdsCall]_vars

\* C13: for every combination of query type, complexity, intent and metadata
\* of the best candidate, unknown or missing keys included, each of the three
\* thresholds calculate_thresholds returns is at least 0.05.
C13_ThresholdFloor ==
    stage = "returned"
       => /\ DOMAIN result
                = {"high_similarity", "medium_similarity", "low_similarity"}
          /\ \A k \in DOMAIN result : result[k] >= 5

\* the adjustments sum to -0.13 and the low threshold, 0.10 before them, is
\* returned as the floor
C13_Witness ==
    /\ stage = "returned"
    /\ arg.query_metadata
          = [type |-> "join_query", complexity |-> "complex", intent |-> "aggregation"]
    /\ arg.rag_metadata = <<>>
    /\ result.low_similarity = 5
    /\ result.high_similarity = 32

\* the lookup of one key of the request metadata in its table: 0 when the key
\* is missing or its value is not in the table
C14_Lookup(table, key) ==
    IF key \in DOMAIN arg.query_metadata
          /\ arg.query_metadata[key] \in DOMAIN table
    THEN table[arg.query_metadata[key]] ELSE 0

C14_ThreeLookups ==
      C14_Lookup(adjustments.query_type, "type")
    + C14_Lookup(adjustments.complexity, "complexity")
    + C14_Lookup(adjustments.intent, "intent")

\* 0.05 when the best candidate is a column or a table template
C14_CandidateBoost ==
    IF "type" \in DOMAIN arg.rag_metadata
          /\ arg.rag_metadata["type"] \in {"column_query", "table_query"}
    THEN 5 ELSE 0

C14_Returns(a) ==
    result = [high_similarity |-> Max2(5, 45 + a),
              medium_similarity |-> Max2(5, 25 + a),
              low_similarity |-> Max2(5, 10 + a)]

\* C14 as stated: calculate_thresholds returns max(0.05, base + a) for the
\* bases 0.45/0.25/0.10, a being the sum of exactly the three lookups (query
\* type, complexity, intent) of the request metadata and of nothing else.
C14_Original ==
    stage = "returned" => C14_Returns(C14_ThreeLookups)

\* C14 (amended): calculate_thresholds returns max(0.05, base + a) for the
\* bases 0.45/0.25/0.10, the same a for all three, a being the sum of the
\* three lookups of the request metadata (a missing or unmatched key
\* contributing 0) plus 0.05 when the metadata of the best candidate has the
\* type column_query or table_query.
C14_Amended ==
    stage = "returned" => C14_Returns(C14_ThreeLookups + C14_CandidateBoost)

\* a count request of unknown complexity and no intent whose best candidate
\* is a column template: 0.08 + 0.05 on every base
C14_Witness ==
    /\ stage = "returned"
    /\ arg.query_metadata = [type |-> "count_query", complexity |-> UnknownKey]
    /\ arg.rag_metadata = [type |-> "column_query"]
    /\ result = [high_similarity |-> 58, medium_similarity |-> 38,
                 low_similarity |-> 23]

(***************************************************************************)
(* SpecSearch: semantic_search called on its own.  The argument is the     *)
(* collection, top_k, and what the backend answers to the query of each    *)
(* searched variation: it raises, or it returns its hits.                  *)
(***************************************************************************)
\* the collection searched: a prefix of the corpus file without its last entry
SearchCollections ==
    {SubSeq(TemplateOrder, 1, n) : n \in 0..(Len(TemplateOrder) - 1)}

\* cosine distances of the backend, in hundredths, from 0 to 2: two below 1
\* and one above
BackendDistances == {30, 60, 130}

\* top_k of the call: the 8 of process_enhanced_query, and two smaller ones
TopKInputs == {1, 2, TopKFinal}

\* what collection.query does for one variation
BackendAnswers(c, top_k) ==
    {[raised |-> TRUE, hits |-> <<>>]}
       \cup {[raised |-> FALSE, hits |-> h] :
                h \in ResponsesWithin(c, top_k, BackendDistances)}

\* the loop of OptimizedChromaManager.semantic_search over the variations,
\* from variation n on
RECURSIVE SearchLoop(_, _, _)
SearchLoop(all, answers, n) ==
    IF n > Len(answers) THEN all
    ELSE SearchLoop(IF answers[n].raised THEN AfterFailedVariation(all)
                    ELSE MergeHits(all, answers[n].hits, 1),
                    answers, n + 1)

\* OptimizedChromaManager.semantic_search(query_variations, top_k)
FinalSemanticSearch(answers, top_k) ==
    SortedResults(SearchLoop(<<>>, Take(answers, MaxSearched), 1), top_k)

\* WorkingChromaManager.semantic_search(query_text, top_k)
WorkingSemanticSearch(answer) ==
    IF answer.raised THEN <<>> ELSE WorkingResults(answer.hits)

SearchArgs ==
    UNION {
        {[manager |-> "final", collection |-> c, top_k |-> k, answers |-> a] :
            a \in [1..1 -> BackendAnswers(c, k)] \cup [1..2 -> BackendAnswers(c, k)]}
        \cup
        {[manager |-> "working", collection |-> c, top_k |-> k, answers |-> a] :
            a \in [1..1 -> BackendAnswers(c, k)]}
        : c \in SearchCollections, k \in TopKInputs}

SearchInit ==
    /\ RouterIdle
    /\ ServerIdle
    /\ arg \in SearchArgs
    /\ result = <<>>
    /\ stage = "call"

SearchCall ==
    /\ stage = "call"
    /\ result' = IF arg.manager = "final"
                 THEN FinalSemanticSearch(arg.answers, arg.top_k)
                 ELSE WorkingSemanticSearch(arg.answers[1])
    /\ stage' = "returned"
    /\ UNCHANGED <<arg, routerVars, serverVars>>

SpecSearch == SearchInit /\ [][SearchCall]_vars

\* the hits of every variation whose query returned
C15_Hits ==
    UNION { Range(arg.answers[n].hits) : n \in 1..Len(arg.answers) }

\* the templates found by some variation
C15_Found == { h.tpl : h \in C15_Hits }

\* the best similarity (1 - distance) a template obtained
C15_BestOf(t) ==
    CHOOSE s \in {100 - h.distance : h \in {x \in C15_Hits : x.tpl = t}} :
        \A h \in C15_Hits : h.tpl = t => 100 - h.distance <= s

\* C15: the list semantic_search returns is deduplicated by template id: no
\* template appears in it twice, two different templates are never merged
\* into one entry (every template found has its entry, up to top_k), and the
\* similarity reported for a template is the maximum it obtained over the
\* searched variations.
C15_Original ==
    (stage = "returned" /\ arg.manager = "final")
       => /\ \A i, j \in 1..Len(result) : i # j => result[i].tpl # result[j].tpl
          /\ Len(result) = Min2(arg.top_k, Cardinality(C15_Found))
          /\ \A i \in 1..Len(result) :
                /\ result[i].tpl \in C15_Found
                /\ result[i].similarity = C15_BestOf(result[i].tpl)

\* C16: every similarity of a search result, and the similarity recorded in
\* the routing decision (that of the first result, or 0 without results),
\* lies in [0,1] for every distance the backend reports, distances above 1
\* included.
C16_Original ==
    stage = "returned"
       => /\ \A i \in 1..Len(result) :
                result[i].similarity >= 0 /\ result[i].similarity <= 100
          /\ MaxSimilarity(result) >= 0
          /\ MaxSimilarity(result) <= 100

\* the place of a template in the collection, in insertion order
C17_Place(t) == CHOOSE i \in 1..Len(arg.collection) : arg.collection[i] = t

\* C17: semantic_search returns at most top_k results, in non-increasing
\* order of similarity, and results of equal similarity appear in the order
\* in which their templates were inserted in the corpus.
C17_Original ==
    (stage = "returned" /\ arg.manager = "final")
       => /\ Len(result) <= arg.top_k
          /\ \A i, j \in 1..Len(result) :
                i < j
                   => /\ result[i].similarity >= result[j].similarity
                      /\ (result[i].similarity = result[j].similarity
                            /\ result[i].tpl # result[j].tpl)
                           => C17_Place(result[i].tpl) < C17_Place(result[j].tpl)

\* some variation's query returned this result at rank p (counted from 1)
C17_ReturnedAt(r, p) ==
    \E n \in 1..Len(arg.answers) :
        /\ p <= Len(arg.answers[n].hits)
        /\ arg.answers[n].hits[p].tpl = r.tpl
        /\ 100 - arg.answers[n].hits[p].distance = r.similarity

\* C17 (amended): semantic_search returns at most top_k results, in
\* non-increasing order of similarity, and results of equal similarity appear
\* in ascending order of the rank at which the backend returned them (the
\* order in which their entries were created), whatever the order in which
\* their templates were inserted in the corpus.
C17_Amended ==
    (stage = "returned" /\ arg.manager = "final")
       => /\ Len(result) <= arg.top_k
          /\ \A i, j \in 1..Len(result) :
                i < j
                   => /\ result[i].similarity >= result[j].similarity
                      /\ result[i].similarity = result[j].similarity
                           => \E p, q \in 1..arg.top_k :
                                 /\ p < q
                                 /\ C17_ReturnedAt(result[i], p)
                                 /\ C17_ReturnedAt(result[j], q)

\* the third template of the corpus is the first hit of the first variation,
\* the second template the second hit of the second variation, both at
\* similarity 0.40, every answer listing equal distances in corpus order:
\* the third template is returned before the second
C17_Witness ==
    /\ stage = "returned"
    /\ arg.manager = "final"
    /\ arg.top_k = 2
    /\ arg.collection = <<"count_floats", "col_float_id", "bare_select">>
    /\ arg.answers
          = <<[raised |-> FALSE,
               hits |-> <<[tpl |-> "bare_select", distance |-> 60],
                          [tpl |-> "count_floats", distance |-> 130]>>],
              [raised |-> FALSE,
               hits |-> <<[tpl |-> "count_floats", distance |-> 60],
                          [tpl |-> "col_float_id", distance |-> 60]>>]>>
    /\ result = <<[tpl |-> "bare_select", similarity |-> 40],
                  [tpl |-> "col_float_id", similarity |-> 40]>>

\* C18: the routing tier and the top similarity of a request are fixed by the
\* input, the corpus and the distances before the Generation Adapter is
\* called: whatever the adapter returns, text, nothing or a failure, the
\* request ends with the tier chosen by the routing decision and with the
\* similarity of the search.
C18_Determinism ==
    /\ [][pc = "generate"
             => /\ branch' = branch
                /\ max_similarity' = max_similarity
                /\ rag_results' = rag_results
                /\ pc' = "done"
                /\ method' = branch]_vars
    /\ [](pc = "done"
             => /\ method = branch
                /\ max_similarity = (IF rag_results # <<>>
                                     THEN rag_results[1].similarity ELSE 0))

\* two requests that differ only in what the adapter did end alike: here the
\* adapter returned nothing and the request ended in the refinement tier
\* with the similarity 0.45 of its search
C18_Witness ==
    /\ pc = "done"
    /\ Len(llm_calls) = 1
    /\ llm_calls[1].outcome.content = <<>>
    /\ ~llm_calls[1].outcome.raised
    /\ branch = "llm_enhanced_medium_similarity"
    /\ method = branch
    /\ max_similarity = 45

(***************************************************************************)
(* SpecServer: the startup logic of the two hosting processes next to      *)
(* their request handlers.  run_local_web.main starts initialize_rag in a  *)
(* background thread and serves requests from the main thread; the backend *)
(* registers two startup handlers, which the framework runs in order       *)
(* before it serves requests.                                              *)
(***************************************************************************)
\* requests followed per run
MaxRequests == 2

\* batches collection.add is called with to load the corpus file
CorpusBatches == 2

CorpusFile == "optimized_chromadb_data.json"

ParquetFile == "parquet_data/measurements.parquet"

\* the collection as an earlier run of the process left it: none, empty, or
\* holding the corpus
StoresAtStart ==
    {[exists |-> FALSE, count |-> 0], [exists |-> TRUE, count |-> 0],
     [exists |-> TRUE, count |-> CorpusBatches]}

ServerInit ==
    /\ NoCall
    /\ RouterIdle
    /\ program \in {"local_web", "backend"}
    /\ files \in SUBSET {CorpusFile, ParquetFile}
    /\ store \in StoresAtStart
    /\ rag_system = 0
    /\ connection_pool = <<>>
    /\ connects = 0
    /\ init_pc = (IF program = "local_web" THEN "start" ELSE "startup_1")
    /\ responses = <<>>

\* backend/main.py: the startup handler of lines 76-90, then the one of lines
\* 95-132; each opens a connection and binds it to connection_pool
startup_event ==
    /\ program = "backend"
    /\ init_pc \in {"startup_1", "startup_2"}
    /\ connects' = connects + 1
    /\ connection_pool' = [id |-> connects',
                           views |-> init_pc = "startup_2" /\ ParquetFile \in files]
    /\ rag_system' = 0
    /\ init_pc' = (IF init_pc = "startup_1" THEN "startup_2" ELSE "done")
    /\ UNCHANGED <<callVars, routerVars, program, files, store, responses>>

\* backend/main.py: GET /healthz, served once startup is over
health_check ==
    /\ program = "backend"
    /\ init_pc = "done"
    /\ Len(responses) < MaxRequests
    /\ responses' = Append(responses,
                           [kind |-> "health",
                            rag_loaded |-> rag_system # 0,
                            db_connected |-> connection_pool # <<>>])
    /\ UNCHANGED <<callVars, routerVars, program, files, store, rag_system,
                   connection_pool, connects, init_pc>>

\* initialize_rag: server_state.rag_system = WorkingRAGSystem(...).  The
\* constructor gets or creates the collection and opens the engine's
\* connection; when it raises, initialize_rag prints and ends.
ConstructSystem ==
    /\ program = "local_web"
    /\ init_pc = "start"
    /\ \/ /\ store' = [store EXCEPT !.exists = TRUE]
          /\ connects' = connects + 1
          /\ rag_system' = 1
          /\ init_pc' = "count"
       \/ /\ init_pc' = "failed"
          /\ UNCHANGED <<store, connects, rag_system>>
    /\ UNCHANGED <<callVars, routerVars, program, files, connection_pool, responses>>

\* initialize_rag: the collection in use when it holds something, else
\* setup_system; populate_with_optimized_data returns when the corpus file is
\* not found
CheckCount ==
    /\ program = "local_web"
    /\ init_pc = "count"
    /\ init_pc' = (IF store.count > 0 THEN "done"
                   ELSE IF CorpusFile \in files THEN "delete" ELSE "done")
    /\ UNCHANGED <<callVars, routerVars, program, files, store, rag_system,
                   connection_pool, connects, responses>>

\* populate_with_optimized_data: delete_collection, create_collection, then
\* one collection.add per batch
populate_with_optimized_data ==
    /\ program = "local_web"
    /\ \/ /\ init_pc = "delete"
          /\ store' = [exists |-> FALSE, count |-> 0]
          /\ init_pc' = "create"
       \/ /\ init_pc = "create"
          /\ store' = [exists |-> TRUE, count |-> 0]
          /\ init_pc' = "add"
       \/ /\ init_pc = "add"
          /\ store' = [store EXCEPT !.count = @ + 1]
          /\ init_pc' = (IF store'.count = CorpusBatches THEN "done" ELSE "add")
    /\ UNCHANGED <<callVars, routerVars, program, files, rag_system,
                   connection_pool, connects, responses>>

\* RAGWebHandler.serve_status; collection.count() raises on a collection that
\* was deleted, and the handler passes
serve_status ==
    /\ program = "local_web"
    /\ Len(responses) < MaxRequests
    /\ responses' = Append(responses,
          [kind |-> "status",
           rag_loaded |-> rag_system # 0,
           chromadb_count |-> IF rag_system # 0 /\ store.exists
                              THEN store.count ELSE 0,
           status |-> IF rag_system # 0 /\ store.exists
                      THEN "ready" ELSE "loading",
           collection |-> store])
    /\ UNCHANGED <<callVars, routerVars, program, files, store, rag_system,
                   connection_pool, connects, init_pc>>

(***************************************************************************)
(* backend/main.py: the paginated endpoints.  A statement is the sequence  *)
(* of its clauses; the engine answers with a number of rows or an error.   *)
(***************************************************************************)
\* page_size: int = Query(100, ge=10, le=1000)
MinPageSize == 10

MaxPageSize == 1000

\* str.lower() on the letters of the Latin alphabet
UpperCase ==
    [A |-> "a", B |-> "b", C |-> "c", D |-> "d", E |-> "e", F |-> "f",
     G |-> "g", H |-> "h", I |-> "i", J |-> "j", K |-> "k", L |-> "l",
     M |-> "m", N |-> "n", O |-> "o", P |-> "p", Q |-> "q", R |-> "r",
     S |-> "s", T |-> "t", U |-> "u", V |-> "v", W |-> "w", X |-> "x",
     Y |-> "y", Z |-> "z"]

Lower(text) ==
    [i \in 1..Len(text) |->
        IF text[i] \in DOMAIN UpperCase THEN UpperCase[text[i]] ELSE text[i]]

\* a clause of a statement
Select(what) == [kw |-> "SELECT", what |-> what, n |-> 0]

Limit(n) == [kw |-> "LIMIT", what |-> "", n |-> n]

Offset(n) == [kw |-> "OFFSET", what |-> "", n |-> n]

\* a condition get_filtered_data appends to its base_query
Where(what) == [kw |-> "AND", what |-> what, n |-> 0]

\* SELECT COUNT(*) FROM (statement)
CountOf(statement) == <<[kw |-> "COUNT", what |-> "", n |-> 0]>> \o statement

\* the base statements of the keyword processing, lines 273-336
AverageTemperatureSql == <<Select("average temperature by float")>>

TemperatureSql == <<Select("temperature measurements"), Limit(1000)>>

SalinitySql == <<Select("salinity measurements"), Limit(1000)>>

DefaultSql == <<Select("averages by float")>>

\* base_query of get_filtered_data, with the conditions of the filters
FilteredQuery(filters) ==
    <<Select("measurements")>>
       \o (IF filters.lat_range THEN <<Where("deployment_latitude")>> ELSE <<>>)

\* "LIMIT" in base_sql.upper()
HasLimit(statement) == \E i \in 1..Len(statement) : statement[i].kw = "LIMIT"

\* base_sql.split("LIMIT")[0]
BeforeLimit(statement) ==
    SubSeq(statement, 1,
           Min({i \in 1..Len(statement) : statement[i].kw = "LIMIT"}) - 1)

\* What connection_pool.execute(statement) gives on a source of the given
\* number of rows: the number of rows fetched (for a COUNT(*), the number
\* counted), or an error when the views were not created or when the
\* statement has a second LIMIT clause.
EngineRows(connection, statement, rows) ==
    LET limits == {i \in 1..Len(statement) : statement[i].kw = "LIMIT"}
        offsets == {i \in 1..Len(statement) : statement[i].kw = "OFFSET"}
    IN  IF ~connection.views \/ Cardinality(limits) > 1 \/ Cardinality(offsets) > 1
        THEN [error |-> TRUE, n |-> 0]
        ELSE LET skip == IF offsets = {} THEN 0
                         ELSE statement[CHOOSE i \in offsets : TRUE].n
                 left == IF rows > skip THEN rows - skip ELSE 0
             IN  [error |-> FALSE,
                  n |-> IF limits = {} THEN left
                        ELSE Min2(left, statement[CHOOSE i \in limits : TRUE].n)]

\* math.ceil(...) with the quotient rounded down
CeilDiv_RoundsDown(a, b) == a \div b

\* math.ceil(total_records / page_size)
CeilDiv(a, b) == IF a % b = 0 THEN a \div b ELSE a \div b + 1

\* Query(1, ge=1) and Query(100, ge=10, le=1000): the framework answers 422
\* itself when a parameter is out of range
ValidPaging(page, page_size) ==
    page >= 1 /\ page_size >= MinPageSize /\ page_size <= MaxPageSize

\* the mock PaginationResponse of both endpoints
MockResponse(page, page_size) ==
    [status |-> 200, method |-> "mock", executed |-> <<>>, data |-> 2,
     pagination |-> [total_records |-> 2, current_page |-> page,
                     page_size |-> page_size, total_pages |-> 1,
                     has_next |-> FALSE, has_prev |-> FALSE]]

\* the answer of a request that ended with an HTTPException
ErrorResponse(status, executed) ==
    [status |-> status, method |-> "error", executed |-> executed, data |-> 0,
     pagination |-> <<>>]

\* "Calculate pagination" and "Execute paginated query" of both endpoints,
\* after the statements in counted were executed to get total_records
Paginate(connection, statement, how, counted, total_records, page, page_size, rows) ==
    LET total_pages == CeilDiv(total_records, page_size)
        offset == (page - 1) * page_size
        paginated_sql == statement \o <<Limit(page_size), Offset(offset)>>
        fetched == EngineRows(connection, paginated_sql, rows)
        executed == counted \o <<paginated_sql>>
    IN  IF fetched.error THEN ErrorResponse(500, executed)
        ELSE [status |-> 200, method |-> how, executed |-> executed,
              data |-> fetched.n,
              pagination |-> [total_records |-> total_records,
                              current_page |-> page,
                              page_size |-> page_size,
                              total_pages |-> total_pages,
                              has_next |-> page < total_pages,
                              has_prev |-> page > 1]]

\* the keyword processing of POST /api/query
KeywordSql(query) ==
    LET query_lower == Lower(query)
    IN  IF Occurs(<<"t", "e", "m", "p", "e", "r", "a", "t", "u", "r", "e">>, query_lower)
           \/ Occurs(<<"t", "e", "m", "p">>, query_lower)
        THEN (IF Occurs(<<"a", "v", "e", "r", "a", "g", "e">>, query_lower)
                 \/ Occurs(<<"a", "v", "g">>, query_lower)
              THEN AverageTemperatureSql ELSE TemperatureSql)
        ELSE IF Occurs(<<"s", "a", "l", "i", "n", "i", "t", "y">>, query_lower)
                \/ Occurs(<<"s", "a", "l", "t">>, query_lower)
        THEN SalinitySql
        ELSE DefaultSql

\* POST /api/query, the handler registered first (lines 218-389).  rag is
\* the module's rag_system: 0 for None, else the final query its
\* process_query returns.  An HTTPException raised inside the try block is
\* caught by "except Exception" and answered with status 500.
process_query_with_pagination(connection, rag, query, page, page_size, rows) ==
    IF ~ValidPaging(page, page_size) THEN ErrorResponse(422, <<>>)
    ELSE IF connection = <<>> THEN MockResponse(page, page_size)
    ELSE LET base_sql == IF rag # 0 THEN rag.enhanced_sql ELSE KeywordSql(query)
             how == IF rag # 0 THEN rag.method ELSE "keyword_based_sql"
         IN  IF base_sql = <<>> THEN ErrorResponse(500, <<>>)
             ELSE IF HasLimit(base_sql)
             THEN LET first == EngineRows(connection, base_sql, rows)
                      count_sql == CountOf(BeforeLimit(base_sql))
                      second == EngineRows(connection, count_sql, rows)
                  IN  IF ~first.error
                      THEN Paginate(connection, base_sql, how, <<base_sql>>,
                                    first.n, page, page_size, rows)
                      ELSE IF second.error
                      THEN ErrorResponse(500, <<base_sql, count_sql>>)
                      ELSE Paginate(connection, base_sql, how,
                                    <<base_sql, count_sql>>, second.n,
                                    page, page_size, rows)
             ELSE LET count_sql == CountOf(base_sql)
                      counted == EngineRows(connection, count_sql, rows)
                  IN  IF counted.error THEN ErrorResponse(500, <<count_sql>>)
                      ELSE Paginate(connection, base_sql, how, <<count_sql>>,
                                    counted.n, page, page_size, rows)

\* POST /api/filtered-data (lines 775-908)
get_filtered_data(connection, filters, page, page_size, rows) ==
    IF ~ValidPaging(page, page_size) THEN ErrorResponse(422, <<>>)
    ELSE IF connection = <<>> THEN MockResponse(page, page_size)
    ELSE LET filtered_query == FilteredQuery(filters)
             count_sql == CountOf(filtered_query)
             counted == EngineRows(connection, count_sql, rows)
         IN  IF counted.error THEN ErrorResponse(500, <<count_sql>>)
             ELSE Paginate(connection, filtered_query, "filtered_data",
                           <<count_sql>>, counted.n, page, page_size, rows)

\* what is posted to the local server: nothing, blanks, a request
PostedQueries ==
    {<<>>, <<" ", " ">>, <<" ", "c", "o", "u", "n", "t">>}

\* what the engine does with the final query of a request: the empty text
\* gives no result set, another text rows or an error
PostedOutcomes(sql) ==
    IF Strip(sql) = <<>> THEN {[kind |-> "no_result_set"]}
    ELSE {[kind |-> "rows", columns |-> <<"count">>, rows |-> <<<<2>>>>],
          [kind |-> "error", message |-> {"table", "does not exist"}]}

\* RAGWebHandler.handle_query_post: 400 without a query, "RAG system not
\* ready" without a system, else process_query on the collection as it is,
\* which returns some final query, and execute_query on that
handle_query_post ==
    /\ program = "local_web"
    /\ Len(responses) < MaxRequests
    /\ \E posted \in PostedQueries, enhanced_sql \in {<<>>, CountFloatsSql} :
       \E outcome \in PostedOutcomes(enhanced_sql) :
          LET query == Strip(posted)
              ran == query # <<>> /\ rag_system # 0
              done == execute_query("working", enhanced_sql, outcome)
          IN  responses' = Append(responses,
                 [kind |-> "query",
                  query |-> posted,
                  outcome |-> IF query = <<>> THEN "400"
                              ELSE IF rag_system = 0 THEN "not_ready"
                              ELSE "processed",
                  processed |-> IF ran THEN <<query>> ELSE <<>>,
                  enhanced_sql |-> IF ran THEN enhanced_sql ELSE <<>>,
                  executed |-> IF ran THEN <<done.executed>> ELSE <<>>,
                  body |-> IF query = <<>> THEN "No query provided"
                           ELSE IF rag_system = 0 THEN "RAG system not ready"
                           ELSE IF done.success THEN "data"
                           ELSE "SQL execution failed",
                  collection |-> store])
    /\ UNCHANGED <<callVars, routerVars, program, files, store, rag_system,
                   connection_pool, connects, init_pc>>

\* backend/main.py: POST /api/query with the default page and page size,
\* served once startup is over
post_api_query ==
    /\ program = "backend"
    /\ init_pc = "done"
    /\ Len(responses) < MaxRequests
    /\ \E query \in {<<>>, <<" ", " ">>, <<"s", "a", "l", "t">>}, rows \in {0, 101} :
          responses' = Append(responses,
             [kind |-> "api_query",
              query |-> query,
              response |-> process_query_with_pagination(
                              connection_pool, rag_system, query, 1, 100, rows)])
    /\ UNCHANGED <<callVars, routerVars, program, files, store, rag_system,
                   connection_pool, connects, init_pc>>

ServerNext ==
    \/ startup_event
    \/ health_check
    \/ ConstructSystem
    \/ CheckCount
    \/ populate_with_optimized_data
    \/ serve_status
    \/ handle_query_post
    \/ post_api_query

SpecServer == ServerInit /\ [][ServerNext]_vars

\* the collection holds the whole corpus
C19_Loaded(c) == c.exists /\ c.count = CorpusBatches

\* C19: in the local web server no query runs through the pipeline, and the
\* status endpoint does not report rag_loaded, before the corpus is loaded
\* completely, and the collection is not deleted, recreated or appended to
\* while a request can be served (while the handler finds a system).
C19_Original ==
    /\ [](\A i \in 1..Len(responses) :
             /\ (responses[i].kind = "query" /\ responses[i].outcome = "processed")
                   => C19_Loaded(responses[i].collection)
             /\ (responses[i].kind = "status" /\ responses[i].rag_loaded)
                   => C19_Loaded(responses[i].collection))
    /\ [][(program = "local_web" /\ rag_system # 0) => store' = store]_vars

\* C20: initialisation takes effect once: the connection of the analytic
\* engine is opened once, however often the startup logic runs, and a corpus
\* that is loaded is not deleted and loaded again.
C20_Original ==
    /\ [](connects <= 1)
    /\ [][C19_Loaded(store) => store' = store]_vars

(***************************************************************************)
(* SpecPreprocess: preprocess_query called on its own, on texts of a few   *)
(* words and on some longer ones, with and without the schema file.        *)
(***************************************************************************)
\* words a text is made of: keywords of several intent rules, synonyms, a
\* column name, and a word no table knows
TextWords ==
    {<<"c", "o", "u", "n", "t">>,
     <<"g", "e", "t">>,
     <<"t", "e", "m", "p">>,
     <<"w", "i", "t", "h">>,
     <<"a", "v", "e", "r", "a", "g", "e">>,
     <<"x", "y", "z">>,
     <<"s", "a", "l", "i", "n", "i", "t", "y">>,
     <<"f", "l", "o", "a", "t", "_", "i", "d">>}

\* words per text
MaxWords == 2

\* texts with blanks at the edges or doubled, and a text naming four columns
LongTexts ==
    {<<" ", " ">>,
     <<" ", "g", "i", "v", "e", " ", " ", "m", "e", " ", "d", "a", "t", "a", " ">>,
     <<"s", "h", "o", "w", " ", "m", "e", " ", "c", "u", "r", "r", "e", "n", "t", "_", "s", "t", "a", "t", "u", "s", " ", "f", "l", "o", "a", "t", "_", "i", "d", " ", "p", "r", "o", "f", "i", "l", "e", "_", "i", "d", " ", "p", "r", "o", "f", "i", "l", "e", "_", "d", "a", "t", "e">>}

PreprocessTexts ==
    {Join(ws) : ws \in UNION {[1..n -> TextWords] : n \in 0..MaxWords}} \cup LongTexts

PreprocessInit ==
    /\ RouterIdle
    /\ ServerIdle
    /\ arg \in [schema_file : SchemaFiles, query : PreprocessTexts]
    /\ result = <<>>
    /\ stage = "call"

PreprocessCall ==
    /\ stage = "call"
    /\ result' = preprocess_query(SchemaInfo(arg.schema_file), arg.query)
    /\ stage' = "returned"
    /\ UNCHANGED <<arg, routerVars, serverVars>>

SpecPreprocess == PreprocessInit /\ [][PreprocessCall]_vars

\* no keyword of a table, no column of the schema, no keyword of an operation
\* and no keyword of an intent rule occurs in the text
C23_NothingMatches(schema, text) ==
    /\ \A i \in 1..Len(table_keywords) :
          \A kw \in table_keywords[i].keywords : ~Occurs(kw, text)
    /\ \A i \in 1..Len(operation_keywords) :
          \A kw \in operation_keywords[i].keywords : ~Occurs(kw, text)
    /\ \A i \in 1..Len(intent_patterns) :
          \A kw \in intent_patterns[i].patterns : ~Occurs(kw, text)
    /\ \A i \in 1..Len(schema) : \A j \in 1..Len(schema[i].columns) :
          /\ ~Occurs(schema[i].columns[j], text)
          /\ ~Occurs(Unscore(schema[i].columns[j]), text)

\* C23: preprocess_query fails on no text: it returns its seven fields; when
\* no table, column, operation or intent keyword matches, the entity sets are
\* empty and the intent is general_query; the synonym substitution replaces
\* token by token and leaves a token that is no key of the dictionary as it is.
C23_PreprocessTotal ==
    stage = "returned"
       => /\ DOMAIN result = {"original", "processed", "expanded", "intent",
                             "entities", "variations", "tokens"}
          /\ C23_NothingMatches(SchemaInfo(arg.schema_file), result.processed)
                => /\ result.entities
                         = [tables |-> <<>>, columns |-> <<>>, operations |-> <<>>]
                   /\ result.intent = "general_query"
          /\ LET expanded == Split(result.expanded)
             IN  /\ Len(expanded) = Len(result.tokens)
                 /\ \A i \in 1..Len(result.tokens) :
                       (\A p \in oceanographic_synonyms : p[1] # result.tokens[i])
                          => expanded[i] = result.tokens[i]

\* "xyz temp": nothing matches, and only the second token is a key of the
\* dictionary
C23_Witness ==
    /\ stage = "returned"
    /\ arg.query = <<"x", "y", "z", " ", "t", "e", "m", "p">>
    /\ result.expanded = <<"x", "y", "z", " ", "t", "e", "m", "p", "e", "r", "a", "t", "u", "r", "e">>
    /\ result.intent = "general_query"
    /\ result.entities.tables = <<>>

\* the order of the rules
C24_Order ==
    <<"count_statistics", "data_retrieval", "data_filtering", "aggregation",
      "quality_control", "geographic", "temporal">>

\* the rules one of whose keywords occurs in the text classified
C24_Matching ==
    {n \in 1..Len(C24_Order) :
        \E kw \in intent_patterns[n].patterns : Occurs(kw, result.processed)}

\* C24: the intent is that of the first rule, in the order count_statistics,
\* data_retrieval, data_filtering, aggregation, quality_control, geographic,
\* temporal, one of whose keywords occurs in the text; general_query when no
\* rule matches.
C24_FirstRuleWins ==
    stage = "returned"
       => /\ \A n \in 1..Len(C24_Order) : intent_patterns[n].intent = C24_Order[n]
          /\ Len(intent_patterns) = Len(C24_Order)
          /\ result.intent = (IF C24_Matching = {} THEN "general_query"
                              ELSE C24_Order[Min(C24_Matching)])

\* "average count" matches the fourth rule and the first: the first wins
C24_Witness ==
    /\ stage = "returned"
    /\ arg.query = <<"a", "v", "e", "r", "a", "g", "e", " ", "c", "o", "u", "n", "t">>
    /\ C24_Matching = {1, 4}
    /\ result.intent = "count_statistics"

\* the variations made of a column of the schema put before the text
C25_ColumnPrefixed ==
    {i \in 1..Len(result.variations) :
        \E t \in 1..Len(SchemaInfo(arg.schema_file)) :
           \E c \in 1..Len(SchemaInfo(arg.schema_file)[t].columns) :
              result.variations[i]
                 = SchemaInfo(arg.schema_file)[t].columns[c] \o SP \o result.processed}

\* C25 as stated: the variation list has between 1 and 10 entries, its first
\* entry is the normalized and expanded text, and at most 3 of its entries
\* are column-prefixed variants.
C25_Original ==
    stage = "returned"
       => /\ Len(result.variations) >= 1
          /\ Len(result.variations) <= 10
          /\ result.variations[1] = result.expanded
          /\ Cardinality(C25_ColumnPrefixed) <= 3

\* C25 (amended): the variation list has between 1 and 10 entries, its first
\* entry is the normalized text (lower-cased, stop phrases removed, blanks
\* normalized) before the synonym expansion, and at most 3 of its entries
\* are column-prefixed variants.
C25_Amended ==
    stage = "returned"
       => /\ Len(result.variations) >= 1
          /\ Len(result.variations) <= 10
          /\ result.variations[1] = result.processed
          /\ Cardinality(C25_ColumnPrefixed) <= 3

\* four columns and two tables are found in the text: the list is cut at 10
\* entries, two of them column-prefixed, and starts with the normalized text
C25_Witness ==
    /\ stage = "returned"
    /\ arg.schema_file = "read"
    /\ Len(result.entities.columns) = 4
    /\ Len(result.variations) = 10
    /\ Cardinality(C25_ColumnPrefixed) = 2
    /\ result.variations[1] = <<"c", "u", "r", "r", "e", "n", "t", "_", "s", "t", "a", "t", "u", "s", " ", "f", "l", "o", "a", "t", "_", "i", "d", " ", "p", "r", "o", "f", "i", "l", "e", "_", "i", "d", " ", "p", "r", "o", "f", "i", "l", "e", "_", "d", "a", "t", "e">>

(***************************************************************************)
(* SpecEmbed: one call of APIEmbeddingFunction.__call__, which calls       *)
(* _get_api_embeddings and falls back on the local model.  The argument    *)
(* holds whether a token is set, what the remote provider does at each     *)
(* request, and whether the local model can be loaded.  The result holds   *)
(* the requests made so far with the wait that followed each.  A request   *)
(* is taken to return or to raise (requests.post is called without a       *)
(* timeout; a request that never returns is outside the model).            *)
(***************************************************************************)
\* max_retries of _get_api_embeddings
max_retries == 3

\* what one requests.post does: status 200 with embeddings, status 200 with
\* a body that cannot be used (the conversion raises), status 503, another
\* status (429, 500, ...), or an exception of the request itself
RequestOutcomes == {"200", "200_unusable", "503", "other_status", "exception"}

\* a wait that grows by one second for each attempt
wait_time_Linear(attempt) == attempt + 1

\* wait_time = 2 ** attempt, slept after a 503 response
wait_time(attempt) == 2 ^ attempt

EmbedInit ==
    /\ RouterIdle
    /\ ServerIdle
    /\ arg \in [hf_token : BOOLEAN,
                remote : [1..max_retries -> RequestOutcomes],
                local_model : {"loads", "fails"}]
    /\ result = [log |-> <<>>, value |-> "pending", provider |-> "none"]
    /\ stage = "call"

\* _get_api_embeddings: one pass of the loop "for attempt in range(max_retries)"
ApiAttempt ==
    /\ stage = "call"
    /\ arg.hf_token
    /\ Len(result.log) < max_retries
    /\ LET attempt == Len(result.log)
           outcome == arg.remote[attempt + 1]
           wait == CASE outcome = "503" -> wait_time(attempt)
                     [] outcome \in {"200_unusable", "exception"}
                           -> (IF attempt < max_retries - 1 THEN 1 ELSE 0)
                     [] OTHER -> 0
       IN  /\ result' = [result EXCEPT
                            !.log = Append(@, [outcome |-> outcome, wait |-> wait]),
                            !.value = CASE outcome = "200" -> "embeddings"
                                        [] outcome = "other_status" -> "None"
                                        [] OTHER -> @]
           /\ stage' = (IF outcome \in {"200", "other_status"}
                        THEN "remote_returned" ELSE "call")
    /\ UNCHANGED <<arg, routerVars, serverVars>>

\* _get_api_embeddings: "return None" without a token, and after the loop
ApiReturnNone ==
    /\ stage = "call"
    /\ ~arg.hf_token \/ Len(result.log) = max_retries
    /\ result' = [result EXCEPT !.value = "None"]
    /\ stage' = "remote_returned"
    /\ UNCHANGED <<arg, routerVars, serverVars>>

\* APIEmbeddingFunction.__call__ after _get_api_embeddings returned: its
\* embeddings, else those of the local model, else constant vectors
EmbeddingFunctionCall ==
    /\ stage = "remote_returned"
    /\ result' = [result EXCEPT
                     !.provider = IF result.value = "embeddings" THEN "remote"
                                  ELSE IF arg.local_model = "loads" THEN "local"
                                  ELSE "constant"]
    /\ stage' = "returned"
    /\ UNCHANGED <<arg, routerVars, serverVars>>

EmbedNext == ApiAttempt \/ ApiReturnNone \/ EmbeddingFunctionCall

SpecEmbed == EmbedInit /\ [][EmbedNext]_vars /\ WF_vars(EmbedNext)

\* the requests made and how the call went on after each
C26_Bounded ==
    /\ Len(result.log) <= 3
    /\ \A n \in 0..(Len(result.log) - 1) :
          LET r == result.log[n + 1]
              last == stage # "call" /\ n + 1 = Len(result.log)
          IN  /\ r.outcome = "503" => (r.wait = 2 ^ n /\ (n < 2 => ~last))
              /\ r.outcome = "other_status" => (last /\ result.value = "None")
              /\ (stage # "call" /\ n + 1 < Len(result.log))
                    => r.outcome \notin {"200", "other_status"}
    /\ (stage # "call" /\ Len(result.log) = 3 /\ result.log[3].outcome # "200")
          => result.value = "None"
    /\ result.provider \in {"local", "constant"} => result.value = "None"
    /\ (stage = "returned" /\ result.value = "None")
          => result.provider # "remote"

C29_Ordered ==
    stage = "returned"
       => /\ result["high_similarity"] >= result["medium_similarity"]
          /\ result["medium_similarity"] >= result["low_similarity"]

\* the adjustments sum to -0.18 (an unknown intent adds nothing, a schema
\* match would add 0.05 but the best candidate is a join): high 0.27, and
\* medium and low both at the floor
C29_Witness ==
    /\ stage = "returned"
    /\ arg.query_metadata
          = [type |-> "join_query", complexity |-> "complex", intent |-> "aggregation"]
    /\ arg.rag_metadata = [type |-> "join_query"]
    /\ result = [high_similarity |-> 32, medium_similarity |-> 12,
                 low_similarity |-> 5]

\* C27 (as stated): in process_enhanced_query, whenever the top similarity is
\* at least the high threshold and no query string was extracted from the top
\* template, the request is routed to LLMEnhanced: never to DirectReuse,
\* never to LLMGenerated, and never aborted, whatever the thresholds are.
C27_Original ==
    (/\ system = "final"
     /\ pc \in {"route", "generate", "done", "raised"}
     /\ rag_results # <<>>
     /\ max_similarity >= thresholds.high_similarity
     /\ rag_sql = <<>>)
       => /\ pc # "raised"
          /\ Routed => branch = "llm_enhanced_medium_similarity"
          /\ pc = "done" => method = "llm_enhanced_medium_similarity"

(***************************************************************************)
(* SpecApi: one request to a paginated endpoint of backend/main.py, with   *)
(* the module's connection_pool as it is before startup (None) and after   *)
(* it (with or without the views), on a source of some number of rows.     *)
(***************************************************************************)
\* pages asked for
MaxPage == 3

\* request texts: empty, blank, and texts of the keyword branches
ApiQueries ==
    {<<>>,
     <<" ", " ">>,
     <<"a", "v", "g", " ", "t", "e", "m", "p">>,
     <<"T", "e", "m", "p", "e", "r", "a", "t", "u", "r", "e">>,
     <<"s", "a", "l", "t">>,
     <<"f", "l", "o", "a", "t", "s">>}

\* rows the base statement selects
RowCounts == {0, 1, 10, 11, 21, 1001, 2001}

ApiInit ==
    /\ RouterIdle
    /\ ServerIdle
    /\ arg \in [endpoint : {"query", "filtered_data"},
                connection_pool : {<<>>, [id |-> 2, views |-> FALSE],
                                   [id |-> 2, views |-> TRUE]},
                query : ApiQueries,
                filters : [lat_range : BOOLEAN],
                page : 0..MaxPage,
                page_size : {9, 10, 11, 1000, 1001},
                rows : RowCounts]
    /\ result = <<>>
    /\ stage = "call"

QueryCall ==
    /\ stage = "call"
    /\ arg.endpoint = "query"
    /\ result' = process_query_with_pagination(arg.connection_pool, 0, arg.query,
                                               arg.page, arg.page_size, arg.rows)
    /\ stage' = "returned"
    /\ UNCHANGED <<arg, routerVars, serverVars>>

FilteredDataCall ==
    /\ stage = "call"
    /\ arg.endpoint = "filtered_data"
    /\ result' = get_filtered_data(arg.connection_pool, arg.filters,
                                   arg.page, arg.page_size, arg.rows)
    /\ stage' = "returned"
    /\ UNCHANGED <<arg, routerVars, serverVars>>

SpecApi == ApiInit /\ [][QueryCall \/ FilteredDataCall]_vars

\* C22: in every response of the query and the filtered-data endpoint that
\* was computed from the database, total_pages is total_records divided by
\* page_size and rounded up, has_next holds exactly when the page is below
\* total_pages, and has_prev exactly when the page is above 1.
C22_PaginationLaw ==
    (stage = "returned" /\ result.status = 200 /\ result.method # "mock")
       => LET p == result.pagination
          IN  /\ p.current_page = arg.page
              /\ p.page_size = arg.page_size
              /\ p.total_pages * p.page_size >= p.total_records
              /\ (p.total_pages - 1) * p.page_size < p.total_records
              /\ p.has_next <=> p.current_page < p.total_pages
              /\ p.has_prev <=> p.current_page > 1

\* the second of three pages, the last one short: a page before and a page
\* after
C22_Witness ==
    /\ stage = "returned"
    /\ arg.endpoint = "query"
    /\ result.status = 200
    /\ result.method = "keyword_based_sql"
    /\ result.pagination = [total_records |-> 21, current_page |-> 2,
                            page_size |-> 10, total_pages |-> 3,
                            has_next |-> TRUE, has_prev |-> TRUE]

\* the statements a request executed that carry the OFFSET of the pagination
C30_Paginated ==
    {i \in 1..Len(result.executed) :
        \E k \in 1..Len(result.executed[i]) : result.executed[i][k].kw = "OFFSET"}

\* C30 (as stated): for every base statement the keyword processing of
\* /api/query selects, with a database connected, the paginated statement
\* that is executed holds exactly one LIMIT clause; a base statement ending
\* in LIMIT 1000 gets no second LIMIT / OFFSET.
C30_Original ==
    (stage = "returned" /\ arg.endpoint = "query" /\ arg.connection_pool # <<>>)
       => \A i \in C30_Paginated :
             Cardinality({k \in 1..Len(result.executed[i]) :
                             result.executed[i][k].kw = "LIMIT"}) = 1

\* C21 (as stated): a request whose text is empty or blank is rejected at the
\* entry point it came through, the local web handler or POST /api/query,
\* and reaches neither the search and generation of the pipeline nor the
\* execution of a statement.
C21_Original ==
    \A i \in 1..Len(responses) :
       /\ (responses[i].kind = "query" /\ Strip(responses[i].query) = <<>>)
             => /\ responses[i].outcome = "400"
                /\ responses[i].processed = <<>>
                /\ responses[i].executed = <<>>
       /\ (responses[i].kind = "api_query" /\ Strip(responses[i].query) = <<>>)
             => /\ responses[i].response.status \in {400, 422}
                /\ responses[i].response.executed = <<>>

\* C28 (as stated): a caller of the router that gets an empty final query
\* does not invoke the Query Executor with it and reports that no query was
\* generated.  Stated for the local web handler, the one server entry point
\* that has a router: rag_system of backend/main.py is None at every request,
\* so that POST /api/query uses its keyword processing.
C28_Original ==
    /\ program = "backend" => rag_system = 0
    /\ \A i \in 1..Len(responses) :
          (/\ responses[i].kind = "query"
           /\ responses[i].outcome = "processed"
           /\ responses[i].enhanced_sql = <<>>)
             => /\ responses[i].executed = <<>>
                /\ responses[i].body \notin {"data", "SQL execution failed"}
====
